---- MODULE Spec2Model ----
(***************************************************************************)
(* State-machine model of the call-notes assistant: the zustand call store *)
(* (callStore.ts), the App event handlers that drive it, the rule-based    *)
(* text analysis (useTextAnalysis.ts), the coaching service cache          *)
(* (geminiService.ts) and the AgentCoaching component that triggers it.    *)
(*                                                                         *)
(* Text is abstracted to what the code inspects of it: its length, the set *)
(* of lexicon needles that occur in it as substrings, the first amount the *)
(* amount regex matches (0 when none) and whether the date regex matches.  *)
(***************************************************************************)
EXTENDS Integers, Sequences, FiniteSets, TLC

VARIABLES
    currentCall,          \* callStore.currentCall (NoCall models null)
    callHistory,          \* callStore.callHistory, most recent first
    nextCallId,           \* stands for uuidv4(): next fresh call id
    summaryReqs,          \* endCallWithAI invocations suspended at the await
    timerOn,              \* App duration interval is armed
    isListening,          \* speech recognition is running
    audioTasks,           \* pending setTimeout chunk tasks of uploaded audio
    lastAnalyzedLength,   \* geminiService module cache
    lastSuggestions,      \* geminiService module cache
    isProcessing,         \* geminiService module in-flight flag
    remoteCalls,          \* coaching requests awaiting callGeminiAPI
    suggestions,          \* AgentCoaching state (of the mounted instance)
    lastProcessedLength,  \* AgentCoaching state
    debouncePending,      \* AgentCoaching debounce timer is armed
    timerAge,             \* ms the armed debounce timer has been running
    quietFor,             \* ms since the transcript prop last changed
    fnArgs,               \* arguments of the pure function under study
    fnResult,             \* what the function returned for fnArgs
    speech,               \* useSpeechRecognition refs, error, live recognitions
    theme,                \* callStore.theme
    now,                  \* the time new Date() returns
    cancelledIds,         \* history: ids of calls dropped by cancelCall
    emitted,              \* history: promises emitted by analyses, per call id
    issuedLengths,        \* history: transcript lengths of the remote calls
    lastInvokedLength     \* history: length at the latest service invocation

vars == <<currentCall, callHistory, nextCallId, summaryReqs, timerOn,
          isListening, audioTasks, lastAnalyzedLength, lastSuggestions,
          isProcessing, remoteCalls, suggestions, lastProcessedLength,
          debouncePending, timerAge, quietFor, fnArgs, fnResult, speech,
          theme, now,
          cancelledIds, emitted, issuedLengths, lastInvokedLength>>

storeVars == <<currentCall, callHistory, nextCallId, summaryReqs, timerOn,
               isListening, audioTasks, cancelledIds, emitted>>

gateVars == <<lastAnalyzedLength, lastSuggestions, isProcessing, remoteCalls,
              issuedLengths, lastInvokedLength>>

cacheVars == <<lastAnalyzedLength, lastSuggestions, isProcessing, remoteCalls>>

componentVars == <<suggestions, lastProcessedLength, debouncePending,
                   timerAge, quietFor>>

fnVars == <<fnArgs, fnResult>>

----------------------------------------------------------------------------
(* Bounds of the model *)

MaxCalls == 2          \* calls started in one behaviour
MaxEntries == 2        \* transcript entries per call
MaxSummaryReqs == 1    \* summary requests pending at once
MaxAudioTasks == 1     \* staggered upload chunk tasks pending at once
MaxRemote == 2         \* coaching requests in flight at once
MaxDuration == 1       \* seconds the duration timer is followed
TimeStep == 500        \* ms by which one Elapse step advances the clock
MaxHistory == 1        \* history items archived by the store's endCall
MaxItems == 2          \* items per extraction list under updateExtraction
MaxEndRequests == 2    \* summary requests pending when End is pressed again
MaxRecognitions == 2   \* SpeechRecognition objects alive at a time
MaxArchived == 2       \* history items when endCall is invoked directly
MaxTime == 2           \* values of the clock
MaxCoachedEntries == 4 \* transcript entries of the one coached call

----------------------------------------------------------------------------
(* Program constants *)

ComponentMinLength == 20     \* AgentCoaching.tsx:66
ComponentMinGrowth == 50     \* AgentCoaching.tsx:69
ServiceMinLength == 15       \* geminiService.ts:94
ServiceMinGrowth == 60       \* geminiService.ts:100
SummaryMinLength == 10       \* geminiService.ts:328
DescriptionLimit == 100      \* useTextAnalysis.ts:62
QuoteLimit == 150            \* useTextAnalysis.ts:164
AgreementMinLength == 20     \* useTextAnalysis.ts:108
QuoteMinLength == 30         \* useTextAnalysis.ts:163
DebounceMs == 1000           \* AgentCoaching.tsx:98

----------------------------------------------------------------------------
(* Lexicon: useTextAnalysis.ts keyword tables *)

PROMISE_KEYWORDS ==
    {"promise", "will pay", "commit", "guarantee", "agree to pay", "i'll pay",
     "going to pay", "can pay", "naahidi", "nitakulipa", "nitalipa",
     "nitafanya", "nakubali kulipa", "nitaweza kulipa", "naweza kulipa"}

OBJECTION_KEYWORDS ==
    {"can't afford", "don't have", "lost job", "unemployed", "medical",
     "hospital", "sick", "hardship", "difficult", "dispute", "not my debt",
     "wrong", "sina pesa", "siwezi", "nimefukuzwa kazi", "sina kazi",
     "mgonjwa", "hospitali", "ugumu", "siyo deni langu", "si yangu",
     "nimeshindwa"}

AGREEMENT_KEYWORDS ==
    {"agree", "deal", "accept", "okay", "fine", "will do", "sounds good",
     "let's do", "payment plan", "sawa", "nakubali", "ndiyo", "tutafanya",
     "mpango wa malipo", "nimekubali", "ni sawa"}

POSITIVE_KEYWORDS ==
    {"thank", "appreciate", "helpful", "understand", "great", "good",
     "excellent", "wonderful", "happy", "asante", "nashukuru", "nzuri",
     "vizuri", "naelewa", "furaha", "bora"}

NEGATIVE_KEYWORDS ==
    {"angry", "frustrated", "upset", "unfair", "ridiculous", "terrible",
     "hate", "worst", "awful", "hasira", "sijaelewa", "mbaya", "dhuluma",
     "sichuki", "chuki", "vibaya sana"}

----------------------------------------------------------------------------
(* Texts.  kw is the set of needles (lexicon keywords and the substrings the
   classifiers test for) that occur in the lower-cased text. *)

\* "hi there"
TextGreeting == [len |-> 8, kw |-> {}, amount |-> 0, date |-> FALSE]

\* "okay I promise I will pay KES 5,000 by Friday"
TextPromise ==
    [len |-> 45, kw |-> {"okay", "promise", "will pay"}, amount |-> 5000,
     date |-> TRUE]

\* "I lost my job last month and I can't afford this, it is really unfair"
TextHardship ==
    [len |-> 70, kw |-> {"can't afford", "afford", "job", "unfair"},
     amount |-> 0, date |-> FALSE]

Texts == {TextGreeting, TextPromise, TextHardship}

EmptyText == [len |-> 0, kw |-> {}, amount |-> 0, date |-> FALSE]

Min(a, b) == IF a < b THEN a ELSE b

Max(a, b) == IF a > b THEN a ELSE b

\* String.prototype.slice(0, n)
Slice(text, n) == [text EXCEPT !.len = Min(text.len, n)]

\* a + ' ' + b
Concat(a, b) ==
    [len |-> a.len + 1 + b.len, kw |-> a.kw \cup b.kw,
     amount |-> IF a.amount # 0 THEN a.amount ELSE b.amount,
     date |-> a.date \/ b.date]

RECURSIVE Join(_)
\* texts.join(' ')
Join(texts) ==
    IF Len(texts) = 0 THEN EmptyText
    ELSE IF Len(texts) = 1 THEN texts[1]
    ELSE Concat(texts[1], Join(Tail(texts)))

\* transcript.map(t => t.text).join(' ')
JoinTexts(entries) == Join([i \in 1..Len(entries) |-> entries[i].text])

Includes(text, needle) == needle \in text.kw

----------------------------------------------------------------------------
(* useTextAnalysis.ts: analyzeText *)

Count(text, keywords) == Cardinality(text.kw \cap keywords)

hasPromise(text) == \E k \in PROMISE_KEYWORDS : Includes(text, k)

hasObjection(text) == \E k \in OBJECTION_KEYWORDS : Includes(text, k)

hasAgreement(text) == \E k \in AGREEMENT_KEYWORDS : Includes(text, k)

\* ObjectionType with the afford / hardship test moved to the front
ObjectionTypeAffordFirst(text) ==
    IF Includes(text, "afford") \/ Includes(text, "hardship")
    THEN "financial_hardship"
    ELSE IF Includes(text, "job") \/ Includes(text, "unemployed")
    THEN "job_loss"
    ELSE IF Includes(text, "medical") \/ Includes(text, "hospital")
            \/ Includes(text, "sick") THEN "medical"
    ELSE IF Includes(text, "dispute") \/ Includes(text, "not my")
            \/ Includes(text, "wrong") THEN "dispute"
    ELSE "other"

ObjectionType(text) ==
    IF Includes(text, "job") \/ Includes(text, "unemployed") THEN "job_loss"
    ELSE IF Includes(text, "medical") \/ Includes(text, "hospital")
            \/ Includes(text, "sick") THEN "medical"
    ELSE IF Includes(text, "afford") \/ Includes(text, "hardship")
         THEN "financial_hardship"
    ELSE IF Includes(text, "dispute") \/ Includes(text, "not my")
            \/ Includes(text, "wrong") THEN "dispute"
    ELSE "other"

ObjectionSeverity(type) ==
    IF type \in {"job_loss", "medical", "dispute"} THEN "high" ELSE "medium"

AgreementType(text) ==
    IF Includes(text, "payment plan") \/ Includes(text, "monthly")
    THEN "payment_plan"
    ELSE IF Includes(text, "settle") \/ Includes(text, "settlement")
    THEN "settlement"
    ELSE IF Includes(text, "call") \/ Includes(text, "callback")
    THEN "callback"
    ELSE "other"

\* SentimentOf without Math.min(95, ...) and Math.max(5, ...)
SentimentOfUnclamped(text, fullTranscript) ==
    LET totalPositive == Count(text, POSITIVE_KEYWORDS)
                         + Count(fullTranscript, POSITIVE_KEYWORDS)
        totalNegative == Count(text, NEGATIVE_KEYWORDS)
                         + Count(fullTranscript, NEGATIVE_KEYWORDS)
    IN  IF totalPositive > totalNegative + 1
        THEN [sentiment |-> "positive",
              sentimentScore |-> 50 + (totalPositive - totalNegative) * 15]
        ELSE IF totalNegative > totalPositive + 1
        THEN [sentiment |-> "negative",
              sentimentScore |-> 50 - (totalNegative - totalPositive) * 15]
        ELSE IF totalPositive > 0 \/ totalNegative > 0
        THEN [sentiment |-> "neutral",
              sentimentScore |-> 50 + (totalPositive - totalNegative) * 10]
        ELSE [sentiment |-> "neutral", sentimentScore |-> 50]

SentimentOf(text, fullTranscript) ==
    LET totalPositive == Count(text, POSITIVE_KEYWORDS)
                         + Count(fullTranscript, POSITIVE_KEYWORDS)
        totalNegative == Count(text, NEGATIVE_KEYWORDS)
                         + Count(fullTranscript, NEGATIVE_KEYWORDS)
    IN  IF totalPositive > totalNegative + 1
        THEN [sentiment |-> "positive",
              sentimentScore |->
                  Min(95, 50 + (totalPositive - totalNegative) * 15)]
        ELSE IF totalNegative > totalPositive + 1
        THEN [sentiment |-> "negative",
              sentimentScore |->
                  Max(5, 50 - (totalNegative - totalPositive) * 15)]
        ELSE IF totalPositive > 0 \/ totalNegative > 0
        THEN [sentiment |-> "neutral",
              sentimentScore |-> 50 + (totalPositive - totalNegative) * 10]
        ELSE [sentiment |-> "neutral", sentimentScore |-> 50]

\* The partial extraction and the significance flag of one chunk.  A list the
\* code leaves undefined is the empty list: updateExtraction treats both alike.
\* extractedAmount when AMOUNT_REGEX finds nothing, and an absent
\* sentimentScore of a partial extraction
Undefined == -1

\* analyzeText with the whole chunk as the description of a promise
analyzeTextWholeDescription(text, fullTranscript) ==
    LET promise == [amount |-> IF text.amount = 0
                               THEN Undefined ELSE text.amount,
                    description |-> text,
                    dueDate |-> text.date]
        otype == ObjectionType(text)
        objection == [type |-> otype,
                      description |-> Slice(text, DescriptionLimit),
                      severity |-> ObjectionSeverity(otype)]
        agreed == hasAgreement(text) /\ text.len > AgreementMinLength
        agreement == [type |-> AgreementType(text),
                      details |-> Slice(text, DescriptionLimit)]
        significant == hasPromise(text) \/ hasObjection(text) \/ agreed
        sent == SentimentOf(text, fullTranscript)
    IN  [extraction |->
            [promises |-> IF hasPromise(text) THEN <<promise>> ELSE <<>>,
             objections |-> IF hasObjection(text) THEN <<objection>> ELSE <<>>,
             agreements |-> IF agreed THEN <<agreement>> ELSE <<>>,
             sentiment |-> sent.sentiment,
             sentimentScore |-> sent.sentimentScore,
             keyQuotes |->
                 IF text.len > QuoteMinLength
                    /\ (hasPromise(text) \/ hasAgreement(text) \/ significant)
                 THEN <<Slice(text, QuoteLimit)>> ELSE <<>>,
             keywords |-> IF text.amount # 0 THEN <<text.amount>> ELSE <<>>],
         hasSignificantContent |-> significant]

analyzeText(text, fullTranscript) ==
    LET promise == [amount |-> IF text.amount = 0
                               THEN Undefined ELSE text.amount,
                    description |-> Slice(text, DescriptionLimit),
                    dueDate |-> text.date]
        otype == ObjectionType(text)
        objection == [type |-> otype,
                      description |-> Slice(text, DescriptionLimit),
                      severity |-> ObjectionSeverity(otype)]
        agreed == hasAgreement(text) /\ text.len > AgreementMinLength
        agreement == [type |-> AgreementType(text),
                      details |-> Slice(text, DescriptionLimit)]
        significant == hasPromise(text) \/ hasObjection(text) \/ agreed
        sent == SentimentOf(text, fullTranscript)
    IN  [extraction |->
            [promises |-> IF hasPromise(text) THEN <<promise>> ELSE <<>>,
             objections |-> IF hasObjection(text) THEN <<objection>> ELSE <<>>,
             agreements |-> IF agreed THEN <<agreement>> ELSE <<>>,
             sentiment |-> sent.sentiment,
             sentimentScore |-> sent.sentimentScore,
             keyQuotes |->
                 IF text.len > QuoteMinLength
                    /\ (hasPromise(text) \/ hasAgreement(text) \/ significant)
                 THEN <<Slice(text, QuoteLimit)>> ELSE <<>>,
             keywords |-> IF text.amount # 0 THEN <<text.amount>> ELSE <<>>],
         hasSignificantContent |-> significant]

----------------------------------------------------------------------------
(* callStore.ts: the data and the pure part of each store operation *)

Customers == {"c1"}

initialExtraction ==
    [promises |-> <<>>, objections |-> <<>>, agreements |-> <<>>,
     sentiment |-> "neutral", sentimentScore |-> 50, keyQuotes |-> <<>>,
     keywords |-> <<>>]

NoSummary == [kind |-> "none", callId |-> 0]

\* currentCall: null.  endedAt is 0 while the call has not been ended.
NoCall ==
    [id |-> 0, customer |-> "none", status |-> "none", duration |-> 0,
     transcript |-> <<>>, extraction |-> initialExtraction,
     summary |-> NoSummary, endedAt |-> 0]

\* startCall building the new call over the extraction of the current one
newCallKeepingExtraction(id, customer) ==
    [id |-> id, customer |-> customer, status |-> "active", duration |-> 0,
     transcript |-> <<>>, extraction |-> currentCall.extraction,
     summary |-> NoSummary, endedAt |-> 0]

newCall(id, customer) ==
    [id |-> id, customer |-> customer, status |-> "active", duration |-> 0,
     transcript |-> <<>>, extraction |-> initialExtraction,
     summary |-> NoSummary, endedAt |-> 0]

IsActive(call) == call.status = "active"

RECURSIVE SumAmountsRaw(_)
\* promises.reduce((sum, p) => sum + p.amount, 0), an absent amount taken as
\* it is stored
SumAmountsRaw(promises) ==
    IF Len(promises) = 0 THEN 0
    ELSE promises[1].amount + SumAmountsRaw(Tail(promises))

RECURSIVE SumAmounts(_)
\* promises.reduce((sum, p) => sum + (p.amount || 0), 0)
SumAmounts(promises) ==
    IF Len(promises) = 0 THEN 0
    ELSE (IF promises[1].amount = Undefined THEN 0 ELSE promises[1].amount)
         + SumAmounts(Tail(promises))

RECURSIVE UnionKeywords(_, _)
\* [...new Set([...a, ...b])]: first occurrences, in order
UnionKeywords(a, b) ==
    IF Len(b) = 0 THEN a
    ELSE IF \E i \in 1..Len(a) : a[i] = b[1]
         THEN UnionKeywords(a, Tail(b))
         ELSE UnionKeywords(Append(a, b[1]), Tail(b))

addTranscriptEntry(call, text) ==
    IF call = NoCall THEN call
    ELSE [call EXCEPT
            !.transcript = Append(@, [text |-> text, isFinal |-> TRUE])]

\* updateExtraction taking sentiment and sentimentScore together, the score
\* following the presence of the sentiment
updateExtractionCoupled(call, partial) ==
    IF call = NoCall THEN call
    ELSE [call EXCEPT !.extraction =
            [promises |-> @.promises \o partial.promises,
             objections |-> @.objections \o partial.objections,
             agreements |-> @.agreements \o partial.agreements,
             sentiment |-> IF partial.sentiment = "absent"
                           THEN @.sentiment ELSE partial.sentiment,
             sentimentScore |-> IF partial.sentiment = "absent"
                                THEN @.sentimentScore
                                ELSE partial.sentimentScore,
             keyQuotes |-> @.keyQuotes \o partial.keyQuotes,
             keywords |-> UnionKeywords(@.keywords, partial.keywords)]]

updateExtraction(call, partial) ==
    IF call = NoCall THEN call
    ELSE [call EXCEPT !.extraction =
            [promises |-> @.promises \o partial.promises,
             objections |-> @.objections \o partial.objections,
             agreements |-> @.agreements \o partial.agreements,
             sentiment |-> IF partial.sentiment = "absent"
                           THEN @.sentiment ELSE partial.sentiment,
             sentimentScore |-> IF partial.sentimentScore = Undefined
                                THEN @.sentimentScore
                                ELSE partial.sentimentScore,
             keyQuotes |-> @.keyQuotes \o partial.keyQuotes,
             keywords |-> UnionKeywords(@.keywords, partial.keywords)]]

updateCallDuration(call, duration) ==
    IF call = NoCall THEN call ELSE [call EXCEPT !.duration = duration]

\* The endedCall snapshot taken by endCall and endCallWithAI
endedCallOf(call) ==
    [call EXCEPT !.status = "completed", !.endedAt = now]

historyItemOf(endedCall, summary) ==
    [id |-> endedCall.id, customer |-> endedCall.customer,
     endedAt |-> endedCall.endedAt, duration |-> endedCall.duration,
     sentiment |-> endedCall.extraction.sentiment,
     promisesCount |-> Len(endedCall.extraction.promises),
     totalPromisedAmount |-> SumAmounts(endedCall.extraction.promises),
     summary |-> summary.kind,
     fullTranscript |-> JoinTexts(endedCall.transcript)]

----------------------------------------------------------------------------
(* useSpeechRecognition (part_000:721-986): the refs and the error state of
   the hook, the interim text of the App and the SpeechRecognition objects
   that are alive.  recognition is the state of the object recognitionRef
   holds; stopping and aborting count the objects the hook has let go of with
   stop() or abort() and whose end event is still to come. *)

NoSpeech ==
    [shouldRestart |-> FALSE, restartPending |-> FALSE, error |-> "none",
     interimText |-> EmptyText, recognition |-> "none", stopping |-> 0,
     aborting |-> 0, relistenPending |-> FALSE]

\* The object of recognitionRef has been started and has not ended
Live(s) == s.recognition \in {"starting", "running", "failing"}

stopListening(s) ==
    [s EXCEPT !.shouldRestart = FALSE,
              !.restartPending = FALSE,
              !.recognition = "none",
              !.stopping = IF Live(s) THEN @ + 1 ELSE @]

\* handleStopRecording: stopListening(); setInterimText('')
StopRecording(s) == [stopListening(s) EXCEPT !.interimText = EmptyText]

\* startRecognition: the pending restart is cleared, the object held is
\* aborted and a new one is started; started is whether start() returned
\* without throwing
startRecognition(s, started) ==
    [s EXCEPT !.restartPending = FALSE,
              !.aborting = IF Live(s) THEN @ + 1 ELSE @,
              !.recognition = IF started THEN "starting" ELSE "ended",
              !.error = IF started THEN @ ELSE "start-failed",
              !.shouldRestart = IF started THEN @ ELSE FALSE]

----------------------------------------------------------------------------
(* Initial state: the store as created, no handler has run *)

\* The store, the services and the component as created
InitProgram ==
    /\ currentCall = NoCall
    /\ callHistory = <<>>
    /\ nextCallId = 1
    /\ summaryReqs = <<>>
    /\ timerOn = FALSE
    /\ isListening = FALSE
    /\ audioTasks = <<>>
    /\ lastAnalyzedLength = 0
    /\ lastSuggestions = <<>>
    /\ isProcessing = FALSE
    /\ remoteCalls = <<>>
    /\ suggestions = <<>>
    /\ lastProcessedLength = 0
    /\ debouncePending = FALSE
    /\ timerAge = 0
    /\ quietFor = 0
    /\ cancelledIds = {}
    /\ emitted = [c \in 0..(MaxCalls + 1) |-> 0]
    /\ issuedLengths = {}
    /\ lastInvokedLength = 0
    /\ speech = NoSpeech
    /\ theme = "light"
    /\ now = 1

NoArgs == [fn |-> "none"]

Init ==
    /\ InitProgram
    /\ fnArgs = NoArgs
    /\ fnResult = NoArgs

RemoveAt(seq, i) == SubSeq(seq, 1, i - 1) \o SubSeq(seq, i + 1, Len(seq))

----------------------------------------------------------------------------
(* AgentCoaching is rendered only while the current call is active
   (DashboardView).  What a change of currentCall does to the component:
   unmount drops its state and clears the debounce timer, mount starts from
   the useState defaults and arms the timer, and a change of the transcript or
   sentiment props re-creates fetchSuggestions and so re-arms the timer. *)

CoachingProps(call) ==
    <<JoinTexts(call.transcript), call.extraction.sentimentScore,
      call.customer>>

\* The debounce effect without its cleanup: the timer set by the previous run
\* of the effect is left running next to the new one, so the callback is due
\* when the older timer is.
ArmDebounceNoCleanup(rearm) ==
    /\ debouncePending' = (debouncePending \/ rearm)
    /\ timerAge' = IF debouncePending THEN timerAge ELSE 0

\* The debounce effect: when fetchSuggestions was re-created (rearm) the
\* cleanup clears the timer of the previous run and a new timer is set.
ArmDebounce(rearm) ==
    /\ debouncePending' = (debouncePending \/ rearm)
    /\ timerAge' = IF rearm THEN 0 ELSE timerAge

RenderCoaching ==
    IF ~IsActive(currentCall')
    THEN /\ suggestions' = <<>>
         /\ lastProcessedLength' = 0
         /\ debouncePending' = FALSE
         /\ timerAge' = 0
         /\ quietFor' = 0
    ELSE IF ~IsActive(currentCall)
    THEN /\ suggestions' = <<>>
         /\ lastProcessedLength' = 0
         /\ debouncePending' = TRUE
         /\ timerAge' = 0
         /\ quietFor' = 0
    ELSE /\ suggestions' = suggestions
         /\ lastProcessedLength' = lastProcessedLength
         /\ ArmDebounce(CoachingProps(currentCall')
                            # CoachingProps(currentCall))
         /\ quietFor' = IF JoinTexts(currentCall'.transcript)
                               # JoinTexts(currentCall.transcript)
                        THEN 0 ELSE quietFor

----------------------------------------------------------------------------
(* App handlers on the store *)

\* handleStartCall; the New Session button is disabled while a call is active
handleStartCall(customer) ==
    /\ ~IsActive(currentCall)
    /\ nextCallId <= MaxCalls
    /\ currentCall' = newCall(nextCallId, customer)
    /\ nextCallId' = nextCallId + 1
    /\ timerOn' = TRUE
    /\ RenderCoaching
    /\ UNCHANGED <<callHistory, summaryReqs, isListening, audioTasks,
                   cancelledIds, emitted>>
    /\ UNCHANGED gateVars
    /\ UNCHANGED fnVars
    /\ UNCHANGED now
    /\ UNCHANGED theme
    /\ speech' = [speech EXCEPT !.interimText = EmptyText]

\* handleStartRecording -> startListening
handleStartRecording ==
    /\ IsActive(currentCall)
    /\ ~isListening
    /\ isListening' = TRUE
    /\ UNCHANGED <<currentCall, callHistory, nextCallId, summaryReqs, timerOn,
                   audioTasks, cancelledIds, emitted>>
    /\ UNCHANGED gateVars
    /\ UNCHANGED fnVars
    /\ UNCHANGED now
    /\ UNCHANGED theme
    /\ UNCHANGED speech
    /\ UNCHANGED componentVars

\* handleStopRecording -> stopListening
handleStopRecording ==
    /\ IsActive(currentCall)
    /\ isListening
    /\ isListening' = FALSE
    /\ UNCHANGED <<currentCall, callHistory, nextCallId, summaryReqs, timerOn,
                   audioTasks, cancelledIds, emitted>>
    /\ UNCHANGED gateVars
    /\ UNCHANGED fnVars
    /\ UNCHANGED now
    /\ UNCHANGED theme
    /\ speech' = StopRecording(speech)
    /\ UNCHANGED componentVars

\* The effect of one analysed chunk on the store: the entry is appended, then
\* the partial extraction is merged when commit holds.
ApplyChunk(call, text, fullTranscript, commit) ==
    LET res == analyzeText(text, fullTranscript)
        logged == addTranscriptEntry(call, text)
    IN  IF commit THEN updateExtraction(logged, res.extraction) ELSE logged

EmittedAfter(call, text, fullTranscript) ==
    [emitted EXCEPT ![call.id] =
        @ + Len(analyzeText(text, fullTranscript).extraction.promises)]

\* handleSpeechResult with isFinal = true
handleSpeechResult(text) ==
    /\ isListening
    /\ IsActive(currentCall)
    /\ Len(currentCall.transcript) < MaxEntries
    /\ LET full == Concat(JoinTexts(currentCall.transcript), text)
           res == analyzeText(text, full)
           commit == res.hasSignificantContent
                     \/ res.extraction.sentiment # "absent"
       IN  /\ currentCall' = ApplyChunk(currentCall, text, full, commit)
           /\ emitted' = IF commit THEN EmittedAfter(currentCall, text, full)
                         ELSE emitted
    /\ RenderCoaching
    /\ UNCHANGED <<callHistory, nextCallId, summaryReqs, timerOn, isListening,
                   audioTasks, cancelledIds>>
    /\ UNCHANGED gateVars
    /\ UNCHANGED fnVars
    /\ UNCHANGED now
    /\ UNCHANGED theme
    /\ UNCHANGED speech

\* handleTextSubmit; the text box is rendered while the call is active
handleTextSubmitWithin(text, limit) ==
    /\ IsActive(currentCall)
    /\ Len(currentCall.transcript) < limit
    /\ LET full == Concat(JoinTexts(currentCall.transcript), text)
       IN  /\ currentCall' = ApplyChunk(currentCall, text, full, TRUE)
           /\ emitted' = EmittedAfter(currentCall, text, full)
    /\ RenderCoaching
    /\ UNCHANGED <<callHistory, nextCallId, summaryReqs, timerOn, isListening,
                   audioTasks, cancelledIds>>
    /\ UNCHANGED gateVars
    /\ UNCHANGED fnVars
    /\ UNCHANGED now
    /\ UNCHANGED theme
    /\ UNCHANGED speech

\* handleTextSubmit, for transcripts of up to MaxEntries entries
handleTextSubmit(text) == handleTextSubmitWithin(text, MaxEntries)

\* handleAudioTranscription: one timer task per line of the transcribed text,
\* due in line order.  An upload is delivered after the tasks of the previous
\* one have run (a transcription takes far longer than the 300 ms stagger).
handleAudioTranscription(lines) ==
    /\ IsActive(currentCall)
    /\ audioTasks = <<>>
    /\ Len(currentCall.transcript) + Len(lines) <= MaxEntries
    /\ audioTasks' = [i \in 1..Len(lines) |->
                         [line |-> lines[i], text |-> Join(lines),
                          owner |-> currentCall.id]]
    /\ UNCHANGED <<currentCall, callHistory, nextCallId, summaryReqs, timerOn,
                   isListening, cancelledIds, emitted>>
    /\ UNCHANGED gateVars
    /\ UNCHANGED fnVars
    /\ UNCHANGED now
    /\ UNCHANGED theme
    /\ UNCHANGED speech
    /\ UNCHANGED componentVars

\* The setTimeout callback of handleAudioTranscription
AudioChunkTask ==
    /\ Len(audioTasks) > 0
    /\ LET task == Head(audioTasks)
       IN  /\ currentCall' =
                  ApplyChunk(currentCall, task.line, task.text, TRUE)
           /\ emitted' = IF currentCall = NoCall THEN emitted
                         ELSE EmittedAfter(currentCall, task.line, task.text)
    /\ audioTasks' = Tail(audioTasks)
    /\ RenderCoaching
    /\ UNCHANGED <<callHistory, nextCallId, summaryReqs, timerOn, isListening,
                   cancelledIds>>
    /\ UNCHANGED gateVars
    /\ UNCHANGED fnVars
    /\ UNCHANGED now
    /\ UNCHANGED theme
    /\ UNCHANGED speech

\* The setInterval callback of the duration effect
\* The interval callback without the clearInterval of the effect cleanup and
\* of the End and Cancel handlers: it runs whatever the current call is
TickNeverCleared ==
    /\ currentCall.duration < MaxDuration
    /\ currentCall' = updateCallDuration(currentCall, currentCall.duration + 1)
    /\ RenderCoaching
    /\ UNCHANGED <<callHistory, nextCallId, summaryReqs, timerOn, isListening,
                   audioTasks, cancelledIds, emitted>>
    /\ UNCHANGED gateVars
    /\ UNCHANGED fnVars
    /\ UNCHANGED now
    /\ UNCHANGED theme
    /\ UNCHANGED speech

Tick ==
    /\ timerOn
    /\ currentCall.duration < MaxDuration
    /\ currentCall' = updateCallDuration(currentCall, currentCall.duration + 1)
    /\ RenderCoaching
    /\ UNCHANGED <<callHistory, nextCallId, summaryReqs, timerOn, isListening,
                   audioTasks, cancelledIds, emitted>>
    /\ UNCHANGED gateVars
    /\ UNCHANGED fnVars
    /\ UNCHANGED now
    /\ UNCHANGED theme
    /\ UNCHANGED speech

\* The set(...) that ends endCallWithAI: the snapshot becomes the current call
\* and its history item is prepended.
Archive(endedCall, kind) ==
    LET summary == [kind |-> kind, callId |-> endedCall.id]
    IN  /\ currentCall' = [endedCall EXCEPT !.summary = summary]
        /\ callHistory' = <<historyItemOf(endedCall, summary)>> \o callHistory

\* handleEndCall without its clearInterval: the interval of the timer effect
\* keeps running for as long as the call stays active
handleEndCallTimerRunning ==
    /\ IsActive(currentCall)
    /\ isListening' = FALSE
    /\ LET endedCall == endedCallOf(currentCall)
       IN  IF JoinTexts(endedCall.transcript).len < SummaryMinLength
           THEN /\ Archive(endedCall, "minimal")
                /\ summaryReqs' = summaryReqs
           ELSE /\ Len(summaryReqs) < MaxSummaryReqs
                /\ summaryReqs' = Append(summaryReqs, endedCall)
                /\ UNCHANGED <<currentCall, callHistory>>
    /\ timerOn' = IsActive(currentCall')
    /\ RenderCoaching
    /\ UNCHANGED <<nextCallId, audioTasks, cancelledIds, emitted>>
    /\ UNCHANGED gateVars
    /\ UNCHANGED fnVars
    /\ UNCHANGED now
    /\ UNCHANGED theme
    /\ speech' = StopRecording(speech)

\* handleEndCall -> endCallWithAI up to the await.  generateAISummary answers
\* a transcript under SummaryMinLength without any request, so the
\* continuation runs before any other task.
handleEndCallWithin(limit) ==
    /\ IsActive(currentCall)
    /\ timerOn' = FALSE
    /\ isListening' = FALSE
    /\ LET endedCall == endedCallOf(currentCall)
       IN  IF JoinTexts(endedCall.transcript).len < SummaryMinLength
           THEN /\ Archive(endedCall, "minimal")
                /\ summaryReqs' = summaryReqs
           ELSE /\ Len(summaryReqs) < limit
                /\ summaryReqs' = Append(summaryReqs, endedCall)
                /\ UNCHANGED <<currentCall, callHistory>>
    /\ RenderCoaching
    /\ UNCHANGED <<nextCallId, audioTasks, cancelledIds, emitted>>
    /\ UNCHANGED gateVars
    /\ UNCHANGED fnVars
    /\ UNCHANGED now
    /\ UNCHANGED theme
    /\ speech' = StopRecording(speech)

\* End Session, followed up to MaxSummaryReqs pending summary requests
handleEndCall == handleEndCallWithin(MaxSummaryReqs)

\* SummaryReturn dropping the result of a call that was cancelled meanwhile
SummaryReturnUnlessCancelled(i, kind) ==
    /\ i \in 1..Len(summaryReqs)
    /\ IF summaryReqs[i].id \in cancelledIds
       THEN UNCHANGED <<currentCall, callHistory>>
       ELSE Archive(summaryReqs[i], kind)
    /\ summaryReqs' = RemoveAt(summaryReqs, i)
    /\ timerOn' = FALSE
    /\ RenderCoaching
    /\ UNCHANGED <<nextCallId, isListening, audioTasks, cancelledIds, emitted>>
    /\ UNCHANGED gateVars
    /\ UNCHANGED fnVars
    /\ UNCHANGED now
    /\ UNCHANGED theme
    /\ UNCHANGED speech

\* endCallWithAI after the await: generateAISummary returned the AI result or
\* its own fallback (it never rejects).
SummaryReturn(i, kind) ==
    /\ i \in 1..Len(summaryReqs)
    /\ Archive(summaryReqs[i], kind)
    /\ summaryReqs' = RemoveAt(summaryReqs, i)
    /\ timerOn' = FALSE
    /\ RenderCoaching
    /\ UNCHANGED <<nextCallId, isListening, audioTasks, cancelledIds, emitted>>
    /\ UNCHANGED gateVars
    /\ UNCHANGED fnVars
    /\ UNCHANGED now
    /\ UNCHANGED theme
    /\ UNCHANGED speech

\* handleCancelCall -> cancelCall
handleCancelCall ==
    /\ IsActive(currentCall)
    /\ currentCall' = NoCall
    /\ cancelledIds' = cancelledIds \cup {currentCall.id}
    /\ timerOn' = FALSE
    /\ isListening' = FALSE
    /\ RenderCoaching
    /\ UNCHANGED <<callHistory, nextCallId, summaryReqs, audioTasks, emitted>>
    /\ UNCHANGED gateVars
    /\ UNCHANGED fnVars
    /\ UNCHANGED now
    /\ UNCHANGED theme
    /\ speech' = StopRecording(speech)

----------------------------------------------------------------------------
(* useSpeechRecognition: the steps of the hook and the events of the
   SpeechRecognition objects it creates.  The browser supports speech
   recognition (isSupported). *)

SpeechTexts == {TextGreeting, TextPromise}

ErrorKinds ==
    {"no-speech", "aborted", "network", "audio-capture", "not-allowed",
     "service-not-allowed"}

\* shouldStop of recognition.onerror
FatalKinds == {"audio-capture", "not-allowed"}

\* Objects alive once startRecognition has run in state s
AliveAfterStart(s) == s.stopping + s.aborting + (IF Live(s) THEN 1 ELSE 0) + 1

\* startListening of the hook
startListeningOf(s, started) ==
    startRecognition([s EXCEPT !.error = "none", !.shouldRestart = TRUE],
                     started)

\* handleStartRecording -> startListening -> startRecognition; the button
\* reads Start Recording while isListening is false
startListening ==
    /\ IsActive(currentCall)
    /\ ~isListening
    /\ AliveAfterStart(speech) <= MaxRecognitions
    /\ \E started \in BOOLEAN : speech' = startListeningOf(speech, started)
    /\ UNCHANGED storeVars
    /\ UNCHANGED gateVars
    /\ UNCHANGED fnVars
    /\ UNCHANGED now
    /\ UNCHANGED theme
    /\ UNCHANGED componentVars

\* handleLanguageChange while listening: stopListening() and a timer of
\* 100 ms for startListening()
handleLanguageChange ==
    /\ isListening
    /\ ~speech.relistenPending
    /\ speech' = [stopListening(speech) EXCEPT !.relistenPending = TRUE]
    /\ isListening' = FALSE
    /\ UNCHANGED <<currentCall, callHistory, nextCallId, summaryReqs, timerOn,
                   audioTasks, cancelledIds, emitted>>
    /\ UNCHANGED gateVars
    /\ UNCHANGED fnVars
    /\ UNCHANGED now
    /\ UNCHANGED theme
    /\ UNCHANGED componentVars

\* The 100 ms timer of handleLanguageChange
relistenTimeout ==
    /\ speech.relistenPending
    /\ AliveAfterStart(speech) <= MaxRecognitions
    /\ \E started \in BOOLEAN :
          speech' = startListeningOf(
                        [speech EXCEPT !.relistenPending = FALSE], started)
    /\ UNCHANGED storeVars
    /\ UNCHANGED gateVars
    /\ UNCHANGED fnVars
    /\ UNCHANGED now
    /\ UNCHANGED theme
    /\ UNCHANGED componentVars

\* recognition.onstart
recognitionStart ==
    /\ speech.recognition = "starting"
    /\ speech' = [speech EXCEPT !.recognition = "running", !.error = "none"]
    /\ isListening' = TRUE
    /\ UNCHANGED <<currentCall, callHistory, nextCallId, summaryReqs, timerOn,
                   audioTasks, cancelledIds, emitted>>
    /\ UNCHANGED gateVars
    /\ UNCHANGED fnVars
    /\ UNCHANGED now
    /\ UNCHANGED theme
    /\ UNCHANGED componentVars

\* An object that can deliver results: the one held while it runs, or one
\* let go of with stop(), which returns what it has captured so far
Delivering == speech.recognition = "running" \/ speech.stopping > 0

\* recognition.onresult of an event with final results, followed or not by
\* interim ones: onResult(finalTranscript, true), then onResult(interim,
\* false) when interim is not empty
onresultFinal(final, interim) ==
    /\ Delivering
    /\ IsActive(currentCall) => Len(currentCall.transcript) < MaxEntries
    /\ IF IsActive(currentCall)
       THEN LET full == Concat(JoinTexts(currentCall.transcript), final)
                res == analyzeText(final, full)
                commit == res.hasSignificantContent
                          \/ res.extraction.sentiment # "absent"
            IN  /\ currentCall' = ApplyChunk(currentCall, final, full, commit)
                /\ emitted' =
                       IF commit THEN EmittedAfter(currentCall, final, full)
                       ELSE emitted
                /\ speech' = [speech EXCEPT !.interimText = interim]
       ELSE UNCHANGED <<currentCall, emitted, speech>>
    /\ RenderCoaching
    /\ UNCHANGED <<callHistory, nextCallId, summaryReqs, timerOn, isListening,
                   audioTasks, cancelledIds>>
    /\ UNCHANGED gateVars
    /\ UNCHANGED fnVars
    /\ UNCHANGED now
    /\ UNCHANGED theme

\* onresultInterim with handleSpeechResult logging the interim text as it
\* logs a final one
onresultInterimLogged(interim) ==
    /\ Delivering
    /\ IsActive(currentCall) => Len(currentCall.transcript) < MaxEntries
    /\ currentCall' =
           IF IsActive(currentCall)
           THEN [currentCall EXCEPT
                   !.transcript = Append(@, [text |-> interim,
                                             isFinal |-> FALSE])]
           ELSE currentCall
    /\ speech' = IF IsActive(currentCall)
                 THEN [speech EXCEPT !.interimText = interim]
                 ELSE speech
    /\ RenderCoaching
    /\ UNCHANGED <<callHistory, nextCallId, summaryReqs, timerOn, isListening,
                   audioTasks, cancelledIds, emitted>>
    /\ UNCHANGED gateVars
    /\ UNCHANGED fnVars
    /\ UNCHANGED now
    /\ UNCHANGED theme

\* recognition.onresult of an event with interim results only:
\* onResult(interim, false), which sets the interim text of an active call
onresultInterim(interim) ==
    /\ Delivering
    /\ speech' = IF IsActive(currentCall)
                 THEN [speech EXCEPT !.interimText = interim]
                 ELSE speech
    /\ UNCHANGED storeVars
    /\ UNCHANGED gateVars
    /\ UNCHANGED fnVars
    /\ UNCHANGED now
    /\ UNCHANGED theme
    /\ UNCHANGED componentVars

\* recognition.onerror: what it does to the hook
onerror(s, kind) ==
    IF kind \in FatalKinds
    THEN [s EXCEPT !.error = "fatal", !.shouldRestart = FALSE]
    ELSE s

\* An error event of the object held; its end event follows
recognitionError(kind) ==
    /\ speech.recognition \in {"starting", "running"}
    /\ speech' = [onerror(speech, kind) EXCEPT !.recognition = "failing"]
    /\ isListening' = IF kind \in FatalKinds THEN FALSE ELSE isListening
    /\ UNCHANGED <<currentCall, callHistory, nextCallId, summaryReqs, timerOn,
                   audioTasks, cancelledIds, emitted>>
    /\ UNCHANGED gateVars
    /\ UNCHANGED fnVars
    /\ UNCHANGED now
    /\ UNCHANGED theme
    /\ UNCHANGED componentVars

\* recognition.onend without the restart timer
onendNoRestart(s) == s

\* recognition.onend: what it does to the hook
onend(s) ==
    IF s.shouldRestart THEN [s EXCEPT !.restartPending = TRUE] ELSE s

\* The end event of an object: the one held (after an error, or when the
\* engine ends the session by itself), or one let go of with stop() or
\* abort(), whose aborted error, if any, onerror returns from at once
recognitionEnd(which) ==
    /\ \/ /\ which = "held"
          /\ speech.recognition \in {"running", "failing"}
          /\ speech' = onend([speech EXCEPT !.recognition = "ended"])
       \/ /\ which = "stopped"
          /\ speech.stopping > 0
          /\ speech' = onend([speech EXCEPT !.stopping = @ - 1])
       \/ /\ which = "aborted"
          /\ speech.aborting > 0
          /\ speech' = onend([speech EXCEPT !.aborting = @ - 1])
    /\ isListening' = FALSE
    /\ UNCHANGED <<currentCall, callHistory, nextCallId, summaryReqs, timerOn,
                   audioTasks, cancelledIds, emitted>>
    /\ UNCHANGED gateVars
    /\ UNCHANGED fnVars
    /\ UNCHANGED now
    /\ UNCHANGED theme
    /\ UNCHANGED componentVars

\* The 300 ms timer of recognition.onend
restartTimeout ==
    /\ speech.restartPending
    /\ speech.shouldRestart => AliveAfterStart(speech) <= MaxRecognitions
    /\ IF speech.shouldRestart
       THEN \E started \in BOOLEAN :
                speech' = startRecognition(speech, started)
       ELSE speech' = [speech EXCEPT !.restartPending = FALSE]
    /\ UNCHANGED storeVars
    /\ UNCHANGED gateVars
    /\ UNCHANGED fnVars
    /\ UNCHANGED now
    /\ UNCHANGED theme
    /\ UNCHANGED componentVars

----------------------------------------------------------------------------
(* callStore.ts: the operations of the store as any caller can invoke them,
   without the guards of the App handlers.  The App's effects follow the
   store: the duration timer runs while the current call is active and
   AgentCoaching is mounted while it is. *)

\* startCall keeping only the most recent history item
startCallTrimmingHistory(customer) ==
    /\ nextCallId <= MaxCalls
    /\ currentCall' = newCall(nextCallId, customer)
    /\ nextCallId' = nextCallId + 1
    /\ callHistory' = SubSeq(callHistory, 1, Min(1, Len(callHistory)))
    /\ timerOn' = TRUE
    /\ RenderCoaching
    /\ UNCHANGED <<summaryReqs, isListening, audioTasks, cancelledIds,
                   emitted>>
    /\ UNCHANGED gateVars
    /\ UNCHANGED fnVars
    /\ UNCHANGED now
    /\ UNCHANGED theme
    /\ UNCHANGED speech

startCall(customer) ==
    /\ nextCallId <= MaxCalls
    /\ currentCall' = newCall(nextCallId, customer)
    /\ nextCallId' = nextCallId + 1
    /\ timerOn' = TRUE
    /\ RenderCoaching
    /\ UNCHANGED <<callHistory, summaryReqs, isListening, audioTasks,
                   cancelledIds, emitted>>
    /\ UNCHANGED gateVars
    /\ UNCHANGED fnVars
    /\ UNCHANGED now
    /\ UNCHANGED theme
    /\ UNCHANGED speech

endCallWithin(limit) ==
    /\ currentCall # NoCall
    /\ Len(callHistory) < limit
    /\ Archive(endedCallOf(currentCall), "basic")
    /\ timerOn' = FALSE
    /\ RenderCoaching
    /\ UNCHANGED <<nextCallId, summaryReqs, isListening, audioTasks,
                   cancelledIds, emitted>>
    /\ UNCHANGED gateVars
    /\ UNCHANGED fnVars
    /\ UNCHANGED now
    /\ UNCHANGED theme
    /\ UNCHANGED speech

\* endCall, followed up to MaxHistory items of history
endCall == endCallWithin(MaxHistory)

\* setSummary
setSummary ==
    /\ currentCall # NoCall
    /\ currentCall.summary.kind # "set"
    /\ currentCall' = [currentCall EXCEPT
                          !.summary = [kind |-> "set", callId |-> currentCall.id]]
    /\ RenderCoaching
    /\ UNCHANGED <<callHistory, nextCallId, summaryReqs, timerOn, isListening,
                   audioTasks, cancelledIds, emitted>>
    /\ UNCHANGED gateVars
    /\ UNCHANGED fnVars
    /\ UNCHANGED now
    /\ UNCHANGED theme
    /\ UNCHANGED speech

\* toggleTheme
toggleTheme ==
    /\ theme' = IF theme = "light" THEN "dark" ELSE "light"
    /\ UNCHANGED storeVars
    /\ UNCHANGED gateVars
    /\ UNCHANGED fnVars
    /\ UNCHANGED now
    /\ UNCHANGED speech
    /\ UNCHANGED componentVars

\* clearHistory
clearHistory ==
    /\ callHistory' = <<>>
    /\ UNCHANGED <<currentCall, nextCallId, summaryReqs, timerOn, isListening,
                   audioTasks, cancelledIds, emitted>>
    /\ UNCHANGED gateVars
    /\ UNCHANGED fnVars
    /\ UNCHANGED now
    /\ UNCHANGED theme
    /\ UNCHANGED speech
    /\ UNCHANGED componentVars

\* cancelCall archiving the dropped call the way endCall does
cancelCallArchiving ==
    /\ currentCall' = NoCall
    /\ callHistory' =
           IF currentCall = NoCall THEN callHistory
           ELSE <<historyItemOf(currentCall, NoSummary)>> \o callHistory
    /\ cancelledIds' = IF currentCall = NoCall THEN cancelledIds
                       ELSE cancelledIds \cup {currentCall.id}
    /\ timerOn' = FALSE
    /\ RenderCoaching
    /\ UNCHANGED <<nextCallId, summaryReqs, isListening, audioTasks, emitted>>
    /\ UNCHANGED gateVars
    /\ UNCHANGED fnVars
    /\ UNCHANGED now
    /\ UNCHANGED theme
    /\ UNCHANGED speech

cancelCall ==
    /\ currentCall' = NoCall
    /\ cancelledIds' = IF currentCall = NoCall THEN cancelledIds
                       ELSE cancelledIds \cup {currentCall.id}
    /\ timerOn' = FALSE
    /\ RenderCoaching
    /\ UNCHANGED <<callHistory, nextCallId, summaryReqs, isListening,
                   audioTasks, emitted>>
    /\ UNCHANGED gateVars
    /\ UNCHANGED fnVars
    /\ UNCHANGED now
    /\ UNCHANGED theme
    /\ UNCHANGED speech

StoreAddTranscriptEntry(text) ==
    /\ Len(currentCall.transcript) < MaxEntries
    /\ currentCall' = addTranscriptEntry(currentCall, text)
    /\ RenderCoaching
    /\ UNCHANGED <<callHistory, nextCallId, summaryReqs, timerOn, isListening,
                   audioTasks, cancelledIds, emitted>>
    /\ UNCHANGED gateVars
    /\ UNCHANGED fnVars
    /\ UNCHANGED now
    /\ UNCHANGED theme
    /\ UNCHANGED speech

\* "I promise": a promise without an amount
TextVague == [len |-> 9, kw |-> {"promise"}, amount |-> 0, date |-> FALSE]

\* Partial extractions handed to updateExtraction: two analyses, a partial
\* with a sentiment only, and one with a score and repeated keywords only
StorePartials ==
    {analyzeText(TextPromise, TextPromise).extraction,
     analyzeText(TextVague, TextVague).extraction,
     [initialExtraction EXCEPT !.sentiment = "negative",
                               !.sentimentScore = Undefined],
     [initialExtraction EXCEPT !.sentiment = "absent",
                               !.sentimentScore = 80,
                               !.keywords = <<5000, 7, 7>>]}

StoreUpdateExtraction(partial) ==
    /\ LET e == updateExtraction(currentCall, partial).extraction
       IN  /\ Len(e.promises) <= MaxItems
           /\ Len(e.objections) <= MaxItems
           /\ Len(e.agreements) <= MaxItems
           /\ Len(e.keyQuotes) <= MaxItems
    /\ currentCall' = updateExtraction(currentCall, partial)
    /\ emitted' = IF currentCall = NoCall THEN emitted
                  ELSE [emitted EXCEPT ![currentCall.id] =
                           @ + Len(partial.promises)]
    /\ RenderCoaching
    /\ UNCHANGED <<callHistory, nextCallId, summaryReqs, timerOn, isListening,
                   audioTasks, cancelledIds>>
    /\ UNCHANGED gateVars
    /\ UNCHANGED fnVars
    /\ UNCHANGED now
    /\ UNCHANGED theme
    /\ UNCHANGED speech

StoreUpdateCallDuration(duration) ==
    /\ currentCall' = updateCallDuration(currentCall, duration)
    /\ RenderCoaching
    /\ UNCHANGED <<callHistory, nextCallId, summaryReqs, timerOn, isListening,
                   audioTasks, cancelledIds, emitted>>
    /\ UNCHANGED gateVars
    /\ UNCHANGED fnVars
    /\ UNCHANGED now
    /\ UNCHANGED theme
    /\ UNCHANGED speech

----------------------------------------------------------------------------
(* geminiService.ts: the coaching cache *)

\* ServiceBranch with the dirty check measuring the transcript itself instead
\* of its growth since lastAnalyzedLength
ServiceBranchStaleBaseline(len) ==
    IF isProcessing THEN "processing"
    ELSE IF len < ServiceMinLength THEN "short"
    ELSE IF len < ServiceMinGrowth THEN "cached"
    ELSE "remote"

\* ServiceBranch without the dirty check
ServiceBranchNoDirtyCheck(len) ==
    IF isProcessing THEN "processing"
    ELSE IF len < ServiceMinLength THEN "short"
    ELSE "remote"

\* Which branch getAICoachingSuggestions takes for a transcript of length len
ServiceBranch(len) ==
    IF isProcessing THEN "processing"
    ELSE IF len < ServiceMinLength THEN "short"
    ELSE IF len - lastAnalyzedLength < ServiceMinGrowth THEN "cached"
    ELSE "remote"

\* What getAICoachingSuggestions returns without awaiting the remote call
ServiceReturn(len) ==
    IF ServiceBranch(len) = "short" THEN <<>> ELSE lastSuggestions

\* The detectedSentiment AgentCoaching passes: its sentiment prop is the
\* sentimentScore of the call (0..100), compared against 0.4 and 0.6
DetectedSentiment(score) ==
    IF 10 * score < 4 THEN "negative"
    ELSE IF 10 * score > 6 THEN "positive"
    ELSE "neutral"

\* ConversationContext: the fields the service reads.  ctx, the id of the
\* call, stands for customerName and debtAmount.
ContextOf(text, detectedSentiment) ==
    [transcript |-> text, detectedSentiment |-> detectedSentiment]

\* getAICoachingSuggestions up to the await of callGeminiAPI
getAICoachingSuggestions(ctx, context) ==
    LET len == context.transcript.len
    IN  /\ lastInvokedLength' = len
        /\ IF ServiceBranch(len) = "remote"
           THEN /\ Len(remoteCalls) < MaxRemote
                /\ isProcessing' = TRUE
                /\ remoteCalls' =
                       Append(remoteCalls,
                              [ctx |-> ctx, len |-> len, context |-> context])
                /\ issuedLengths' = issuedLengths \cup {len}
                /\ UNCHANGED <<lastAnalyzedLength, lastSuggestions>>
           ELSE UNCHANGED <<cacheVars, issuedLengths>>

\* ids of the suggestions parsed from one answer: `ai-${Date.now()}-${index}`
AIIds == <<"ai-0", "ai-1">>

\* The list parsed from the model's answer: n suggestions for context ctx
AISuggestions(ctx, n) ==
    [i \in 1..n |-> [kind |-> "ai", id |-> AIIds[i], ctx |-> ctx]]

(* getFallbackSuggestions: five rules tested in this order, each a regular
   expression searched in the lower-cased transcript, and the generic rapport
   suggestion when none of them pushed anything. *)
DeescalateWords ==
    {"angry", "frustrated", "upset", "ridiculous", "terrible", "hate",
     "hasira", "chuki"}
HardshipWords ==
    {"no money", "can't afford", "struggling", "broke", "sina pesa",
     "hali ngumu", "shida"}
JobLossWords ==
    {"lost job", "no job", "fired", "unemployed", "sina kazi", "nimefukuzwa",
     "kupoteza kazi"}
ClosingWords ==
    {"will pay", "i'll pay", "promise", "nitalipa", "nitakulipa", "ahadi",
     "nakubali"}
MpesaWords == {"m-pesa", "mpesa", "lipa", "transfer", "paybill"}

Matches(text, words) == \E w \in words : Includes(text, w)

FallbackRuleIds ==
    <<"fallback-deescalate", "fallback-hardship", "fallback-jobloss",
      "fallback-closing", "fallback-mpesa">>

RuleMatches(id, context) ==
    IF id = "fallback-deescalate"
    THEN \/ context.detectedSentiment = "negative"
         \/ Matches(context.transcript, DeescalateWords)
    ELSE IF id = "fallback-hardship"
    THEN Matches(context.transcript, HardshipWords)
    ELSE IF id = "fallback-jobloss"
    THEN Matches(context.transcript, JobLossWords)
    ELSE IF id = "fallback-closing"
    THEN Matches(context.transcript, ClosingWords)
    ELSE Matches(context.transcript, MpesaWords)

FallbackSuggestion(id, ctx) == [kind |-> "fallback", id |-> id, ctx |-> ctx]

\* getFallbackSuggestions without the final length test
getFallbackSuggestionsNoDefault(ctx, context) ==
    LET matched == SelectSeq(FallbackRuleIds,
                             LAMBDA id : RuleMatches(id, context))
    IN  [i \in 1..Len(matched) |-> FallbackSuggestion(matched[i], ctx)]

getFallbackSuggestions(ctx, context) ==
    LET matched == SelectSeq(FallbackRuleIds,
                             LAMBDA id : RuleMatches(id, context))
    IN  IF Len(matched) = 0
        THEN <<FallbackSuggestion("fallback-default", ctx)>>
        ELSE [i \in 1..Len(matched) |-> FallbackSuggestion(matched[i], ctx)]

\* fetchSuggestions after its await: the component instance that asked is the
\* one mounted for call ctx; a list delivered to an unmounted instance is lost.
DeliverSuggestions(ctx, len, list) ==
    IF IsActive(currentCall) /\ currentCall.id = ctx /\ Len(list) > 0
    THEN /\ suggestions' = list
         /\ lastProcessedLength' = len
         /\ ArmDebounce(len # lastProcessedLength)
         /\ quietFor' = quietFor
    ELSE UNCHANGED componentVars

\* callGeminiAPI resolved with parsable JSON holding n suggestions
RemoteSuccess(i, n) ==
    /\ i \in 1..Len(remoteCalls)
    /\ LET call == remoteCalls[i]
           list == AISuggestions(call.ctx, n)
       IN  /\ lastAnalyzedLength' = call.len
           /\ lastSuggestions' = list
           /\ DeliverSuggestions(call.ctx, call.len, list)
    /\ isProcessing' = FALSE
    /\ remoteCalls' = RemoveAt(remoteCalls, i)
    /\ UNCHANGED <<issuedLengths, lastInvokedLength>>
    /\ UNCHANGED storeVars
    /\ UNCHANGED fnVars
    /\ UNCHANGED now
    /\ UNCHANGED theme
    /\ UNCHANGED speech

\* callGeminiAPI rejected, or its answer held no JSON: the catch block
RemoteFailure(i) ==
    /\ i \in 1..Len(remoteCalls)
    /\ LET call == remoteCalls[i]
           list == getFallbackSuggestions(call.ctx, call.context)
       IN  /\ lastAnalyzedLength' = call.len
           /\ lastSuggestions' = list
           /\ DeliverSuggestions(call.ctx, call.len, list)
    /\ isProcessing' = FALSE
    /\ remoteCalls' = RemoveAt(remoteCalls, i)
    /\ UNCHANGED <<issuedLengths, lastInvokedLength>>
    /\ UNCHANGED storeVars
    /\ UNCHANGED fnVars
    /\ UNCHANGED now
    /\ UNCHANGED theme
    /\ UNCHANGED speech

(* What callGeminiAPI can come back with: a rejection (fetch failure, HTTP
   error, no candidate text), text without a {...} block, a block JSON.parse
   rejects, an object without the suggestions field, or an object whose
   suggestions array holds n elements. *)
Responses ==
    {[kind |-> k, n |-> 0] : k \in {"rejected", "prose", "badjson", "nofield"}}
    \cup {[kind |-> "json", n |-> n] : n \in 0..1}

MalformedResponses == {r \in Responses : r.kind # "json"}

\* The try block after the await: ok is FALSE when it throws, n is the length
\* of (parsed.suggestions || []).map(...)
ParseResponse(resp) ==
    IF resp.kind \in {"rejected", "prose", "badjson"}
    THEN [ok |-> FALSE, n |-> 0]
    ELSE IF resp.kind = "nofield"
    THEN [ok |-> TRUE, n |-> 0]
    ELSE [ok |-> TRUE, n |-> resp.n]

\* getAICoachingSuggestions after the await, for the answer resp
RemoteReturn(i, resp) ==
    IF ParseResponse(resp).ok
    THEN RemoteSuccess(i, ParseResponse(resp).n)
    ELSE RemoteFailure(i)

resetCoachingCache ==
    /\ lastAnalyzedLength' = 0
    /\ lastSuggestions' = <<>>
    /\ isProcessing' = FALSE
    /\ UNCHANGED <<remoteCalls, issuedLengths, lastInvokedLength>>
    /\ UNCHANGED storeVars
    /\ UNCHANGED fnVars
    /\ UNCHANGED now
    /\ UNCHANGED theme
    /\ UNCHANGED speech
    /\ UNCHANGED componentVars

----------------------------------------------------------------------------
(* geminiService.ts and callStore.ts: the summary of an ended call.  A summary
   text is the sequence of its sentences and a next action is named by its
   wording; the customer name and the formatted amounts are left out. *)

ActionCap == 5               \* geminiService.ts:432, callStore.ts:426
BriefCallLength == 50        \* callStore.ts:416

\* if (promise.amount), p.amount || 0: undefined and 0 are falsy
Truthy(amount) == amount # Undefined /\ amount # 0

HasType(items, types) == \E i \in 1..Len(items) : items[i].type \in types

When(cond, actions) == IF cond THEN actions ELSE <<>>

\* actions.slice(0, 5)
Capped(actions) == SubSeq(actions, 1, Min(ActionCap, Len(actions)))

\* The rules of generateFallbackNextActions, in the order of the code
FallbackRuleActions(extractions) ==
    When(Len(extractions.promises) > 0,
         <<IF Truthy(extractions.promises[1].amount)
           THEN "Monitor KES payment from customer"
           ELSE "Follow up on payment commitment",
           "Send M-Pesa payment details via SMS">>)
    \o When(HasType(extractions.objections,
                    {"financial_hardship", "job_loss"}),
            <<"Review account for hardship assistance program">>)
    \o When(HasType(extractions.objections, {"dispute"}),
            <<"Escalate account dispute to supervisor">>)
    \o When(HasType(extractions.agreements, {"payment_plan"}),
            <<"Prepare payment plan documentation">>)
    \o When(HasType(extractions.agreements, {"callback"}),
            <<"Schedule callback as agreed">>)
    \o When(extractions.sentiment = "negative",
            <<"Consider assigning senior agent">>)

FallbackDefaultActions ==
    <<"Schedule follow-up call within 5 business days",
      "Send account statement showing balance">>

\* generateFallbackNextActions without the slice(0, 5) that ends it
generateFallbackNextActionsUncapped(extractions) ==
    IF Len(FallbackRuleActions(extractions)) = 0
    THEN FallbackDefaultActions
    ELSE FallbackRuleActions(extractions)

generateFallbackNextActions(extractions) ==
    Capped(IF Len(FallbackRuleActions(extractions)) = 0
           THEN FallbackDefaultActions
           ELSE FallbackRuleActions(extractions))

\* sentimentText[extractions.sentiment] || ''
FallbackSentimentSentence(sentiment) ==
    IF sentiment = "positive" THEN <<"Call ended on a positive note">>
    ELSE IF sentiment = "neutral" THEN <<"Customer remained neutral">>
    ELSE IF sentiment = "negative" THEN <<"Customer expressed concerns">>
    ELSE <<>>

generateFallbackSummary(extractions) ==
    LET middle ==
            IF Len(extractions.promises) > 0
            THEN IF SumAmounts(extractions.promises) > 0
                 THEN <<"Customer committed to pay KES">>
                 ELSE <<"Customer indicated willingness to make payment">>
            ELSE IF Len(extractions.objections) > 0
            THEN IF HasType(extractions.objections, {"financial_hardship"})
                 THEN <<"Customer expressed financial difficulties">>
                 ELSE IF HasType(extractions.objections, {"job_loss"})
                 THEN <<"Customer mentioned job loss situation">>
                 ELSE IF HasType(extractions.objections, {"dispute"})
                 THEN <<"Customer disputed the debt">>
                 ELSE <<>>
            ELSE <<"Discussion focused on account status">>
    IN  [summary |-> <<"Call with customer regarding outstanding balance">>
                     \o middle
                     \o FallbackSentimentSentence(extractions.sentiment),
         nextActions |-> generateFallbackNextActions(extractions)]

\* The early return of generateAISummary
MinimalSummary ==
    [summary |-> <<"Session completed with minimal conversation.">>,
     nextActions |-> <<"Schedule follow-up call", "Review account status">>]

\* generateAISummary goes on to callGeminiAPI
SummaryRequested(transcript) == transcript.len >= SummaryMinLength

(* What callGeminiAPI can come back with for the summary prompt: a rejection,
   text without a {...} block, a block JSON.parse rejects, or an object with
   or without the summary field and with or without a nextActions array of n
   elements. *)
SummaryResponses ==
    {[kind |-> k, hasSummary |-> FALSE, hasActions |-> FALSE, n |-> 0] :
        k \in {"rejected", "prose", "badjson"}}
    \cup {[kind |-> "json", hasSummary |-> hs, hasActions |-> FALSE, n |-> 0] :
             hs \in BOOLEAN}
    \cup {[kind |-> "json", hasSummary |-> hs, hasActions |-> TRUE, n |-> n] :
             hs \in BOOLEAN, n \in {0, 3}}

\* generateAISummary without its early return for a short transcript
generateAISummaryAlwaysAsking(transcript, extractions, resp) ==
    IF resp.kind # "json" THEN generateFallbackSummary(extractions)
    ELSE [summary |-> IF resp.hasSummary THEN <<"AI summary">>
                      ELSE <<"Call completed.">>,
          nextActions |-> IF resp.hasActions
                          THEN [i \in 1..resp.n |-> "AI action"]
                          ELSE generateFallbackNextActions(extractions)]

\* The result of generateAISummary when callGeminiAPI comes back with resp
generateAISummary(transcript, extractions, resp) ==
    IF ~SummaryRequested(transcript) THEN MinimalSummary
    ELSE IF resp.kind # "json" THEN generateFallbackSummary(extractions)
    ELSE [summary |-> IF resp.hasSummary THEN <<"AI summary">>
                      ELSE <<"Call completed.">>,
          nextActions |-> IF resp.hasActions
                          THEN [i \in 1..resp.n |-> "AI action"]
                          ELSE generateFallbackNextActions(extractions)]

\* The rules of generateContextAwareNextActions of callStore.ts, in the order
\* of the code, for a call with the joined transcript text and the extraction
\* given
ContextRuleActions(transcript, extraction) ==
    When(Len(extraction.promises) > 0,
         When(SumAmounts(extraction.promises) > 0,
              <<"Monitor payment of KES from customer">>)
         \o <<IF Len(extraction.promises) > 0
                 /\ extraction.promises[1].dueDate
              THEN "Set reminder for payment due"
              ELSE "Confirm payment date with customer via SMS">>)
    \o When(Includes(transcript, "m-pesa") \/ Includes(transcript, "mpesa"),
            <<"Verify M-Pesa payment receipt">>)
    \o When(HasType(extraction.agreements, {"payment_plan"})
            \/ Includes(transcript, "payment plan")
            \/ Includes(transcript, "installment"),
            <<"Prepare payment plan documentation">>)
    \o When(HasType(extraction.agreements, {"callback"})
            \/ Includes(transcript, "call back")
            \/ Includes(transcript, "call me"),
            <<"Schedule follow-up call as agreed">>)
    \o When(HasType(extraction.objections,
                    {"job_loss", "financial_hardship"}),
            <<"Review account for hardship assistance options",
              "Send information about flexible payment programs">>)
    \o When(HasType(extraction.objections, {"medical"}),
            <<"Flag account for medical hardship review">>)
    \o When(HasType(extraction.objections, {"dispute"}),
            <<"Escalate account dispute to supervisor",
              "Send account statement and transaction history">>)
    \o When(Includes(transcript, "statement")
            \/ Includes(transcript, "document"),
            <<"Email account statement to customer">>)
    \o When(extraction.sentiment = "negative",
            <<"Consider supervisor follow-up call">>)

ContextDefaultActions(transcript) ==
    IF transcript.len > BriefCallLength
    THEN <<"Follow up with customer within 7 days",
           "Send account reminder via SMS">>
    ELSE <<"Attempt callback - conversation was brief",
           "Review account for alternative contact methods">>

generateContextAwareNextActions(transcript, extraction) ==
    Capped(IF Len(ContextRuleActions(transcript, extraction)) = 0
           THEN ContextDefaultActions(transcript)
           ELSE ContextRuleActions(transcript, extraction))

----------------------------------------------------------------------------
(* AgentCoaching.tsx *)

\* The two early returns of fetchSuggestions
ShouldFetch(active, len, processed) ==
    /\ active
    /\ len >= ComponentMinLength
    /\ len - processed >= ComponentMinGrowth

\* The debounce timer fires and runs fetchSuggestions
fetchSuggestions ==
    /\ debouncePending
    /\ LET len == JoinTexts(currentCall.transcript).len
       IN  IF ShouldFetch(IsActive(currentCall), len, lastProcessedLength)
           THEN /\ getAICoachingSuggestions(
                       currentCall.id,
                       ContextOf(JoinTexts(currentCall.transcript),
                                 DetectedSentiment(
                                     currentCall.extraction.sentimentScore)))
                /\ IF ServiceBranch(len) # "remote"
                      /\ Len(ServiceReturn(len)) > 0
                   THEN /\ suggestions' = ServiceReturn(len)
                        /\ lastProcessedLength' = len
                        /\ debouncePending' = TRUE
                   ELSE /\ debouncePending' = FALSE
                        /\ UNCHANGED <<suggestions, lastProcessedLength>>
           ELSE /\ debouncePending' = FALSE
                /\ UNCHANGED <<suggestions, lastProcessedLength>>
                /\ UNCHANGED gateVars
    /\ timerAge' = 0
    /\ quietFor' = quietFor
    /\ UNCHANGED storeVars
    /\ UNCHANGED fnVars
    /\ UNCHANGED now
    /\ UNCHANGED theme
    /\ UNCHANGED speech

\* The timer of the debounce effect is due: setTimeout(fetchSuggestions, 1000)
DebounceFire ==
    /\ timerAge >= DebounceMs
    /\ fetchSuggestions

\* Time passes while the component is mounted.  Both clocks stop at DebounceMs:
\* nothing in the component distinguishes longer waits.
Elapse ==
    /\ IsActive(currentCall)
    /\ timerAge' = IF debouncePending
                   THEN Min(DebounceMs, timerAge + TimeStep) ELSE timerAge
    /\ quietFor' = Min(DebounceMs, quietFor + TimeStep)
    /\ UNCHANGED <<suggestions, lastProcessedLength, debouncePending>>
    /\ UNCHANGED gateVars
    /\ UNCHANGED storeVars
    /\ UNCHANGED fnVars
    /\ UNCHANGED now
    /\ UNCHANGED theme
    /\ UNCHANGED speech

----------------------------------------------------------------------------
(* The session: every App handler, timer task and summary completion that
   acts on the call store.  The store never reads the coaching cache, so the
   coaching requests are left out of this specification. *)

Uploads == UNION {[1..k -> Texts] : k \in 1..MaxAudioTasks}

Next ==
    \/ \E c \in Customers : handleStartCall(c)
    \/ handleStartRecording
    \/ handleStopRecording
    \/ \E t \in Texts : handleSpeechResult(t)
    \/ \E t \in Texts : handleTextSubmit(t)
    \/ \E u \in Uploads : handleAudioTranscription(u)
    \/ AudioChunkTask
    \/ Tick
    \/ handleEndCall
    \/ \E i \in 1..MaxSummaryReqs, k \in {"ai", "fallback"} : SummaryReturn(i, k)
    \/ handleCancelCall

Spec == Init /\ [][Next]_vars

(* The coaching panel over the sessions: the handlers that start, feed and end
   a call, the debounced fetch and the completions of the remote call *)

NextCoaching ==
    \/ \E c \in Customers : handleStartCall(c)
    \/ \E t \in Texts : handleTextSubmit(t)
    \/ handleEndCall
    \/ \E i \in 1..MaxSummaryReqs, k \in {"ai", "fallback"} : SummaryReturn(i, k)
    \/ handleCancelCall
    \/ fetchSuggestions
    \/ \E i \in 1..MaxRemote, n \in 0..1 : RemoteSuccess(i, n)
    \/ \E i \in 1..MaxRemote : RemoteFailure(i)

SpecCoaching == Init /\ [][NextCoaching]_vars

(* The coaching panel over one longer session: the transcript grows by up to
   MaxCoachedEntries entries while the debounced fetch and the remote calls
   run *)

NextBaseline ==
    \/ \E c \in Customers : handleStartCall(c)
    \/ \E t \in Texts : handleTextSubmitWithin(t, MaxCoachedEntries)
    \/ fetchSuggestions
    \/ \E i \in 1..MaxRemote, n \in 0..1 : RemoteSuccess(i, n)
    \/ \E i \in 1..MaxRemote : RemoteFailure(i)

SpecBaseline == Init /\ [][NextBaseline]_vars

(* The coaching service on its own: any caller, any transcript length, and
   resetCoachingCache at any moment *)

GateLengths == {10, 15, 19, 20, 59, 60, 100, 120, 125, 180}

GateInvoke(len) ==
    /\ getAICoachingSuggestions(
           0, ContextOf([EmptyText EXCEPT !.len = len], "neutral"))
    /\ UNCHANGED storeVars
    /\ UNCHANGED fnVars
    /\ UNCHANGED now
    /\ UNCHANGED theme
    /\ UNCHANGED speech
    /\ UNCHANGED componentVars

NextGate ==
    \/ \E len \in GateLengths : GateInvoke(len)
    \/ \E i \in 1..MaxRemote, n \in 0..1 : RemoteSuccess(i, n)
    \/ \E i \in 1..MaxRemote : RemoteFailure(i)
    \/ resetCoachingCache

SpecGate == Init /\ [][NextGate]_vars

----------------------------------------------------------------------------
(* The debounce clock: the coaching component with the passage of time, so
   that the timer of the debounce effect fires only when it is due. *)

NextDebounce ==
    \/ \E c \in Customers : handleStartCall(c)
    \/ \E t \in Texts : handleTextSubmit(t)
    \/ handleCancelCall
    \/ Elapse
    \/ DebounceFire
    \/ \E i \in 1..MaxRemote, n \in 0..1 : RemoteSuccess(i, n)
    \/ \E i \in 1..MaxRemote : RemoteFailure(i)

SpecDebounce == Init /\ [][NextDebounce]_vars

----------------------------------------------------------------------------
(* The ending of sessions: the End Session button stays enabled while a
   summary is pending, so it can be pressed again for the same call. *)

NextEnding ==
    \/ \E c \in Customers : handleStartCall(c)
    \/ \E t \in Texts : handleTextSubmit(t)
    \/ handleEndCallWithin(MaxEndRequests)
    \/ \E i \in 1..MaxEndRequests, kind \in {"ai", "fallback"} :
          SummaryReturn(i, kind)
    \/ handleCancelCall

SpecEnding == Init /\ [][NextEnding]_vars

\* Time passes between two events
TimePasses ==
    /\ now < MaxTime
    /\ now' = now + 1
    /\ UNCHANGED storeVars
    /\ UNCHANGED gateVars
    /\ UNCHANGED fnVars
    /\ UNCHANGED theme
    /\ UNCHANGED speech
    /\ UNCHANGED componentVars

(* Ending a session, with End Session pressed again and the clock advancing *)
NextClock == NextEnding \/ TimePasses

SpecClock == Init /\ [][NextClock]_vars

(* Ending a session when every summary request returns: generateAISummary
   resolves with the AI result or with its fallback, the oldest pending request
   at the latest after the ones issued after it *)
SpecEndingFair ==
    /\ Init
    /\ [][NextEnding]_vars
    /\ WF_vars(\E kind \in {"ai", "fallback"} : SummaryReturn(1, kind))

(* Listening during a call: the recording buttons, the language switch, the
   events of the recognition objects and the timers of the hook, with the
   handlers that start and end a call *)
NextSpeech ==
    \/ \E c \in Customers : handleStartCall(c)
    \/ startListening
    \/ handleStopRecording
    \/ handleLanguageChange
    \/ relistenTimeout
    \/ recognitionStart
    \/ \E f \in SpeechTexts, i \in SpeechTexts \cup {EmptyText} :
          onresultFinal(f, i)
    \/ \E i \in SpeechTexts : onresultInterim(i)
    \/ \E k \in ErrorKinds : recognitionError(k)
    \/ \E w \in {"held", "stopped", "aborted"} : recognitionEnd(w)
    \/ restartTimeout
    \/ handleEndCall
    \/ \E i \in 1..MaxSummaryReqs, k \in {"ai", "fallback"} : SummaryReturn(i, k)
    \/ handleCancelCall

SpecSpeech == Init /\ [][NextSpeech]_vars

(* The recognition session alone: no results are delivered, and the timer of
   recognition.onend fires once it is due *)
NextListening ==
    \/ \E c \in Customers : handleStartCall(c)
    \/ startListening
    \/ handleStopRecording
    \/ handleLanguageChange
    \/ relistenTimeout
    \/ recognitionStart
    \/ \E k \in ErrorKinds : recognitionError(k)
    \/ \E w \in {"held", "stopped", "aborted"} : recognitionEnd(w)
    \/ restartTimeout
    \/ handleEndCall
    \/ handleCancelCall

SpecListening ==
    Init /\ [][NextListening]_vars /\ WF_vars(restartTimeout)

----------------------------------------------------------------------------
(* The summary functions applied to one ended call: the joined transcript,
   the extraction of the call and the answer of callGeminiAPI are drawn in
   the initial state. *)

SummaryPromise(amount, dueDate) == [amount |-> amount, dueDate |-> dueDate]

SummaryPromises ==
    {<<>>,
     <<SummaryPromise(5000, TRUE)>>,
     <<SummaryPromise(Undefined, FALSE)>>,
     <<SummaryPromise(Undefined, FALSE), SummaryPromise(5000, TRUE)>>}

TypeLists(lists) == {[i \in 1..Len(l) |-> [type |-> l[i]]] : l \in lists}

SummaryObjections ==
    TypeLists({<<>>, <<"financial_hardship">>, <<"job_loss">>, <<"medical">>,
               <<"dispute">>, <<"other">>,
               <<"financial_hardship", "dispute", "medical">>})

SummaryAgreements ==
    TypeLists({<<>>, <<"payment_plan">>, <<"callback">>, <<"settlement">>,
               <<"payment_plan", "callback">>})

SummaryKeywordSets ==
    {{}, {"mpesa"}, {"payment plan", "call me", "statement"}}

\* Joined transcripts: empty, just under and at SummaryMinLength, and long
SummaryTranscripts ==
    {EmptyText}
    \cup {[len |-> l, kw |-> k, amount |-> 0, date |-> FALSE] :
             l \in {SummaryMinLength - 1, SummaryMinLength, 70},
             k \in SummaryKeywordSets}

SummaryArgs ==
    [fn : {"endCallWithAI"},
     transcript : SummaryTranscripts,
     promises : SummaryPromises,
     objections : SummaryObjections,
     agreements : SummaryAgreements,
     sentiment : {"positive", "neutral", "negative"},
     resp : SummaryResponses]

ExtractionOf(args) ==
    [promises |-> args.promises, objections |-> args.objections,
     agreements |-> args.agreements, sentiment |-> args.sentiment]

InitSummary ==
    /\ InitProgram
    /\ fnArgs \in SummaryArgs
    /\ fnResult = NoArgs

\* endCallWithAI: await generateAISummary(fullTranscript, ...)
ApplyAISummary ==
    /\ fnResult = NoArgs
    /\ fnResult' =
           [fn |-> "generateAISummary",
            requested |-> SummaryRequested(fnArgs.transcript),
            result |-> generateAISummary(fnArgs.transcript,
                                         ExtractionOf(fnArgs), fnArgs.resp)]
    /\ UNCHANGED <<fnArgs, storeVars, gateVars, componentVars, speech,
                   theme, now>>

\* endCall: generateBasicCallSummary -> generateContextAwareNextActions
ApplyBasicSummary ==
    /\ fnResult = NoArgs
    /\ fnResult' =
           [fn |-> "generateContextAwareNextActions",
            result |->
                [nextActions |->
                     generateContextAwareNextActions(fnArgs.transcript,
                                                     ExtractionOf(fnArgs))]]
    /\ UNCHANGED <<fnArgs, storeVars, gateVars, componentVars, speech,
                   theme, now>>

NextSummary == ApplyAISummary \/ ApplyBasicSummary

SpecSummary == InitSummary /\ [][NextSummary]_vars

----------------------------------------------------------------------------
(* analyzeText applied to one chunk and one full transcript, drawn in the
   initial state, and its extraction merged into a fresh call as
   handleTextSubmit does. *)

AnalyzeSentimentWords == {"thank", "good", "great", "angry", "upset", "hate"}

\* Chunks: any of the sentiment words, with or without a promise keyword, an
\* amount and a date, of lengths around DescriptionLimit
AnalyzeTexts ==
    [len : {20, DescriptionLimit, DescriptionLimit + 1, 150},
     kw : {s \cup p : s \in SUBSET AnalyzeSentimentWords,
                      p \in {{}, {"promise"}}},
     amount : {0, 5000},
     date : BOOLEAN]

AnalyzeTranscripts ==
    [len : {200}, kw : SUBSET AnalyzeSentimentWords, amount : {0},
     date : {FALSE}]

AnalyzeArgs ==
    [fn : {"handleTextSubmit"}, text : AnalyzeTexts,
     fullTranscript : AnalyzeTranscripts]

InitAnalyze ==
    /\ InitProgram
    /\ fnArgs \in AnalyzeArgs
    /\ fnResult = NoArgs

\* const { extraction } = analyzeText(textInput, fullTranscript)
ApplyAnalyze ==
    /\ fnResult = NoArgs
    /\ fnResult' = [fn |-> "analyzeText",
                    result |-> analyzeText(fnArgs.text, fnArgs.fullTranscript)]
    /\ UNCHANGED <<fnArgs, storeVars, gateVars, componentVars, speech,
                   theme, now>>

\* updateExtraction(extraction), on a call that has no extraction yet
ApplyUpdateExtraction ==
    /\ fnResult.fn = "analyzeText"
    /\ fnResult' =
           [fn |-> "updateExtraction",
            call |-> updateExtraction(newCall(1, "c1"),
                                      fnResult.result.extraction)]
    /\ UNCHANGED <<fnArgs, storeVars, gateVars, componentVars, speech,
                   theme, now>>

NextAnalyze == ApplyAnalyze \/ ApplyUpdateExtraction

SpecAnalyze == InitAnalyze /\ [][NextAnalyze]_vars

----------------------------------------------------------------------------
(* analyzeText applied to chunks that mention objections.  A needle that is
   part of another needle occurs wherever the longer one does. *)

ObjectionNeedles ==
    {"can't afford", "afford", "lost job", "job", "unemployed", "medical",
     "hardship", "difficult", "dispute", "wrong"}

SubstringClosed(kw) ==
    /\ "can't afford" \in kw => "afford" \in kw
    /\ "lost job" \in kw => "job" \in kw

ObjectionTexts ==
    {[len |-> 40, kw |-> k, amount |-> 0, date |-> FALSE] :
        k \in {s \in SUBSET ObjectionNeedles : SubstringClosed(s)}}

ObjectionArgs ==
    [fn : {"handleTextSubmit"}, text : ObjectionTexts,
     fullTranscript : {[len |-> 200, kw |-> {}, amount |-> 0,
                        date |-> FALSE]}]

InitObjection ==
    /\ InitProgram
    /\ fnArgs \in ObjectionArgs
    /\ fnResult = NoArgs

SpecObjection == InitObjection /\ [][NextAnalyze]_vars

----------------------------------------------------------------------------
(* The store: its operations in any order, as an importer of useCallStore can
   invoke them. *)

NextStore ==
    \/ \E c \in Customers : startCall(c)
    \/ endCall
    \/ cancelCall
    \/ \E t \in {TextGreeting, TextPromise} : StoreAddTranscriptEntry(t)
    \/ \E partial \in StorePartials : StoreUpdateExtraction(partial)
    \/ \E d \in 0..MaxDuration : StoreUpdateCallDuration(d)

SpecStore == Init /\ [][NextStore]_vars

(* The store with its history operations: calls are completed by endCall,
   and clearHistory, setSummary and toggleTheme are invoked at any time *)
NextHistory ==
    \/ \E c \in Customers : startCall(c)
    \/ endCallWithin(MaxArchived)
    \/ cancelCall
    \/ StoreAddTranscriptEntry(TextPromise)
    \/ StoreUpdateExtraction(analyzeText(TextPromise, TextPromise).extraction)
    \/ \E d \in 0..MaxDuration : StoreUpdateCallDuration(d)
    \/ setSummary
    \/ toggleTheme
    \/ clearHistory

SpecHistory == Init /\ [][NextHistory]_vars

----------------------------------------------------------------------------
(* The coaching service with its contexts and answers: any caller, any
   transcript content, any answer of the remote model. *)

ServiceLengths == {10, 60, 120}

ServiceKeywords ==
    {{}, {"angry"}, {"can't afford"}, {"lost job"}, {"nitalipa", "lipa"},
     {"mpesa"}, {"hate", "broke", "fired", "promise", "paybill"}}

ServiceInvoke(len, kw, detectedSentiment) ==
    /\ getAICoachingSuggestions(
           0, ContextOf([EmptyText EXCEPT !.len = len, !.kw = kw],
                        detectedSentiment))
    /\ UNCHANGED storeVars
    /\ UNCHANGED fnVars
    /\ UNCHANGED now
    /\ UNCHANGED theme
    /\ UNCHANGED speech
    /\ UNCHANGED componentVars

NextService ==
    \/ \E len \in ServiceLengths, kw \in ServiceKeywords,
          d \in {"negative", "neutral", "positive"} :
          ServiceInvoke(len, kw, d)
    \/ \E i \in 1..MaxRemote, resp \in Responses : RemoteReturn(i, resp)

SpecService == Init /\ [][NextService]_vars

----------------------------------------------------------------------------
(* Helpers of the properties *)

IsPrefix(a, b) == Len(a) <= Len(b) /\ SubSeq(b, 1, Len(a)) = a

\* This step is the return of the summary request summaryReqs[i]
IsSummaryReturn(i) ==
    /\ i \in 1..Len(summaryReqs)
    /\ summaryReqs' = RemoveAt(summaryReqs, i)

\* This step runs the pending upload chunk task at the head of the queue
IsAudioChunkTask == audioTasks # <<>> /\ audioTasks' = Tail(audioTasks)

\* This step is the completion of the coaching request remoteCalls[i]
IsRemoteCompletion(i) ==
    /\ i \in 1..Len(remoteCalls)
    /\ remoteCalls' = RemoveAt(remoteCalls, i)

\* This step issues a remote coaching call
IsRemoteIssue == Len(remoteCalls') = Len(remoteCalls) + 1

IssuedLength == remoteCalls'[Len(remoteCalls')].len

TranscriptLength == JoinTexts(currentCall.transcript).len

\* This step is a debounced trigger that passes the component's checks and
\* reaches the service, which issues no remote call
IsCachedFetch ==
    /\ debouncePending
    /\ ShouldFetch(IsActive(currentCall), TranscriptLength,
                   lastProcessedLength)
    /\ UNCHANGED storeVars
    /\ UNCHANGED fnVars
    /\ UNCHANGED now
    /\ UNCHANGED theme
    /\ UNCHANGED speech
    /\ remoteCalls' = remoteCalls
    /\ vars' # vars

----------------------------------------------------------------------------
(* C1: when the summary request of a cancelled call A returns while another
   call B is the current call, the current call stays B, with B's transcript,
   extraction, status and duration unchanged. *)
C1_LateSummaryLeavesNewCall ==
    [][\A i \in 1..MaxSummaryReqs :
          (/\ IsSummaryReturn(i)
           /\ summaryReqs[i].id \in cancelledIds
           /\ currentCall # NoCall
           /\ currentCall.id # summaryReqs[i].id)
          => currentCall' = currentCall]_vars

(* C2: a pending chunk task of an uploaded transcription that runs after the
   call it was delivered to has been ended or cancelled adds no transcript
   entry and no extraction to the current call, be it a later call or the
   completed one. *)
C2_StaleChunkTaskAddsNothing ==
    [][(/\ IsAudioChunkTask
        /\ \/ Head(audioTasks).owner # currentCall.id
           \/ ~IsActive(currentCall))
       => /\ currentCall'.transcript = currentCall.transcript
          /\ currentCall'.extraction = currentCall.extraction]_vars

(* C3: no history item carries the id of a call that was cancelled. *)
C3_CancelledNeverArchived ==
    \A i \in 1..Len(callHistory) : callHistory[i].id \notin cancelledIds

(* C4: in every step that keeps the same call as current call, each of the
   promises, objections, agreements and keyQuotes before the step is a prefix
   of the list after the step. *)
C4_ExtractionListsGrow ==
    [][(/\ currentCall # NoCall
        /\ currentCall' # NoCall
        /\ currentCall'.id = currentCall.id)
       => /\ IsPrefix(currentCall.extraction.promises,
                      currentCall'.extraction.promises)
          /\ IsPrefix(currentCall.extraction.objections,
                      currentCall'.extraction.objections)
          /\ IsPrefix(currentCall.extraction.agreements,
                      currentCall'.extraction.agreements)
          /\ IsPrefix(currentCall.extraction.keyQuotes,
                      currentCall'.extraction.keyQuotes)]_vars

(* C5: the number of promises in the current call's extraction equals the
   number of promises emitted by the analyses applied to that call. *)
C5_PromisesCountEmitted ==
    currentCall # NoCall
    => Len(currentCall.extraction.promises) = emitted[currentCall.id]

(* C6: in the step that ends a session (the current call stops being active)
   the coaching baseline is reset to 0 and the cached suggestion list is
   emptied, and the suggestions displayed in a session were all produced for
   that session. *)
C6_CacheResetOnSessionEnd ==
    /\ [][(IsActive(currentCall) /\ ~IsActive(currentCall'))
          => (lastAnalyzedLength' = 0 /\ lastSuggestions' = <<>>)]_vars
    /\ [](IsActive(currentCall)
          => \A i \in 1..Len(suggestions) :
                 suggestions[i].ctx = currentCall.id)

(* C7: at most one remote coaching call is outstanding at any time. *)
C7_SingleFlight == Len(remoteCalls) <= 1

(* C8: the completion of a coaching fetch whose session has ended writes
   neither the cached list, nor the baseline, nor the displayed suggestions. *)
C8_LateCompletionHasNoEffect ==
    [][\A i \in 1..MaxRemote :
          (/\ IsRemoteCompletion(i)
           /\ ~(IsActive(currentCall) /\ currentCall.id = remoteCalls[i].ctx))
          => /\ lastSuggestions' = lastSuggestions
             /\ lastAnalyzedLength' = lastAnalyzedLength
             /\ suggestions' = suggestions]_vars

(* C9: a remote coaching call is issued only when the transcript is at least
   50 characters longer than the recorded length, no two remote calls are
   issued at transcript lengths less than 50 apart, and a trigger that reaches
   the service without a remote call being issued leaves the cache as it is
   and gets the cached list. *)
C9_DirtyCheckThrottle ==
    [][/\ IsRemoteIssue
          => /\ IssuedLength - lastAnalyzedLength >= 50
             /\ \A l \in issuedLengths :
                    IssuedLength - l >= 50 \/ l - IssuedLength >= 50
       /\ IsCachedFetch
          => /\ lastSuggestions' = lastSuggestions
             /\ lastAnalyzedLength' = lastAnalyzedLength
             /\ lastSuggestions # <<>> => suggestions' = lastSuggestions]_vars

\* A trigger at 116 characters has run and was served from the cache: the
\* only remote call ever issued is the one at 70 characters.
C9_Witness ==
    /\ IsActive(currentCall)
    /\ TranscriptLength = 116
    /\ lastInvokedLength = 116
    /\ issuedLengths = {70}
    /\ lastAnalyzedLength = 70
    /\ remoteCalls = <<>>

(* C10: no remote coaching call is issued for a transcript of fewer than 20
   characters. *)
C10_MinimumContentFloor ==
    /\ \A l \in issuedLengths : l >= 20
    /\ \A i \in 1..Len(remoteCalls) : remoteCalls[i].len >= 20

\* The service was last invoked with 19 characters, past its own floor of 15,
\* and no remote call was issued.
C10_Witness ==
    /\ lastInvokedLength = 19
    /\ lastInvokedLength >= ServiceMinLength
    /\ remoteCalls = <<>>
    /\ ~isProcessing
    /\ issuedLengths = {}

\* This step is the debounce timer running fetchSuggestions
IsDebounceFire ==
    /\ debouncePending
    /\ currentCall' = currentCall
    /\ Len(remoteCalls') >= Len(remoteCalls)
    /\ quietFor' = quietFor
    /\ timerAge' = 0
    /\ vars' # vars

\* This step changes the transcript of the call the component is mounted for
IsTranscriptChange ==
    /\ IsActive(currentCall)
    /\ IsActive(currentCall')
    /\ currentCall'.id = currentCall.id
    /\ currentCall'.transcript # currentCall.transcript

(* C11: fetchSuggestions is run by the debounce timer only when the transcript
   has been unchanged for the whole quiet period of DebounceMs; every change
   of the transcript leaves one freshly started timer in place of the pending
   one, so no fetch is attempted between chunks that arrive closer together
   than the quiet period. *)
C11_DebounceQuietPeriod ==
    /\ [][IsDebounceFire
            => quietFor >= DebounceMs /\ timerAge >= DebounceMs]_vars
    /\ [][IsTranscriptChange => debouncePending' /\ timerAge' = 0]_vars

\* Two chunks of 70 characters arrived in one burst and the quiet period has
\* passed: the only coaching request ever issued is the one for both chunks.
C11_Witness ==
    /\ IsActive(currentCall)
    /\ Len(currentCall.transcript) = 2
    /\ TranscriptLength = 141
    /\ quietFor = DebounceMs
    /\ lastInvokedLength = 141
    /\ issuedLengths = {141}
    /\ ~debouncePending

(* C12: when the remote coaching call fails or its answer is malformed (no
   JSON, or JSON without the suggestions field), the list the service returns
   and caches is the rule-based fallback list of the request's context, and it
   is not empty. *)
C12_FallbackOnMalformed ==
    [][\A i \in 1..MaxRemote : \A resp \in MalformedResponses :
          RemoteReturn(i, resp)
          => /\ lastSuggestions' # <<>>
             /\ lastSuggestions' =
                    getFallbackSuggestions(remoteCalls[i].ctx,
                                           remoteCalls[i].context)]_vars

\* The ids of a suggestion list, in order
IdsOf(list) == [i \in 1..Len(list) |-> list[i].id]

(* C13: the fallback list the service returns when the remote call fails
   holds between 1 and 5 suggestions with pairwise distinct ids, at most one
   per rule, and the generic rapport suggestion is in it exactly when no rule
   matched the context, and then it is the only element. *)
C13_FallbackListShape ==
    [][\A i \in 1..MaxRemote :
          RemoteFailure(i)
          => LET list == lastSuggestions'
                 context == remoteCalls[i].context
                 noRule == \A k \in 1..Len(FallbackRuleIds) :
                               ~RuleMatches(FallbackRuleIds[k], context)
                 hasDefault == \E k \in 1..Len(list) :
                                   list[k].id = "fallback-default"
             IN  /\ Len(list) \in 1..5
                 /\ \A j, k \in 1..Len(list) :
                        list[j].id = list[k].id => j = k
                 /\ hasDefault <=> noRule
                 /\ hasDefault => Len(list) = 1]_vars

\* The remote call for a transcript that matches all five rules has failed:
\* the cached list is the five rule suggestions, without the generic one.
C13_Witness ==
    /\ lastAnalyzedLength = 120
    /\ ~isProcessing
    /\ IdsOf(lastSuggestions) = FallbackRuleIds

\* This step is a startCall: a new call id is handed out
IsStartCall == nextCallId' # nextCallId

(* C14: a startCall invoked while the current call is active fails: the
   current call, its transcript and its extraction are unchanged. *)
C14_StartWhileActiveFails ==
    [][(IsStartCall /\ IsActive(currentCall))
          => currentCall' = currentCall]_vars

(* C15: right after a startCall the current call is active with duration 0,
   an empty transcript, empty promises, objections, agreements, keyQuotes and
   keywords, sentiment neutral with score 50 and no summary, whatever the
   earlier sessions held. *)
C15_FreshCallAfterStart ==
    [][IsStartCall
          => /\ currentCall'.status = "active"
             /\ currentCall'.duration = 0
             /\ currentCall'.transcript = <<>>
             /\ currentCall'.extraction.promises = <<>>
             /\ currentCall'.extraction.objections = <<>>
             /\ currentCall'.extraction.agreements = <<>>
             /\ currentCall'.extraction.keyQuotes = <<>>
             /\ currentCall'.extraction.keywords = <<>>
             /\ currentCall'.extraction.sentiment = "neutral"
             /\ currentCall'.extraction.sentimentScore = 50
             /\ currentCall'.summary = NoSummary]_vars

\* The second call has just been started, fresh, after a first session that
\* was archived with two promises and a negative sentiment.
C15_Witness ==
    /\ currentCall = newCall(2, "c1")
    /\ Len(callHistory) = 1
    /\ callHistory[1].id = 1
    /\ callHistory[1].promisesCount = 2
    /\ callHistory[1].sentiment = "negative"

(* C16: addTranscriptEntry changes nothing when there is no current call or
   when the current call is not active; on an active call it appends exactly
   one entry at the end and leaves the existing entries as they are. *)
C16_AddEntryOnlyWhenActive ==
    [][\A t \in Texts :
          StoreAddTranscriptEntry(t)
          => currentCall' =
                 IF IsActive(currentCall)
                 THEN [currentCall EXCEPT !.transcript =
                          Append(@, [text |-> t, isFinal |-> TRUE])]
                 ELSE currentCall]_vars

\* The elements of a sequence
Range(seq) == {seq[i] : i \in 1..Len(seq)}

(* C17: updateExtraction(partial) on a current call leaves promises,
   objections, agreements and keyQuotes equal to the old list followed by the
   partial's list, keywords equal to the duplicate-free union of old and new
   keywords, sentiment and sentimentScore equal to the partial's value where
   it provides one and to the old value otherwise, and transcript, duration,
   status and callHistory unchanged. *)
C17_UpdateExtractionMerge ==
    [][\A partial \in StorePartials :
          (StoreUpdateExtraction(partial) /\ currentCall # NoCall)
          => LET old == currentCall.extraction
                 new == currentCall'.extraction
             IN  /\ new.promises = old.promises \o partial.promises
                 /\ new.objections = old.objections \o partial.objections
                 /\ new.agreements = old.agreements \o partial.agreements
                 /\ new.keyQuotes = old.keyQuotes \o partial.keyQuotes
                 /\ Range(new.keywords)
                        = Range(old.keywords) \cup Range(partial.keywords)
                 /\ \A j, k \in 1..Len(new.keywords) :
                        new.keywords[j] = new.keywords[k] => j = k
                 /\ new.sentiment = IF partial.sentiment = "absent"
                                    THEN old.sentiment ELSE partial.sentiment
                 /\ new.sentimentScore =
                        IF partial.sentimentScore = Undefined
                        THEN old.sentimentScore ELSE partial.sentimentScore
                 /\ currentCall'.transcript = currentCall.transcript
                 /\ currentCall'.duration = currentCall.duration
                 /\ currentCall'.status = currentCall.status
                 /\ currentCall'.id = currentCall.id
                 /\ callHistory' = callHistory]_vars

\* A partial with a score but no sentiment was merged after one with a
\* sentiment but no score: the call holds the sentiment of the first and the
\* score and the keywords, once each, of the second.
C17_Witness ==
    /\ IsActive(currentCall)
    /\ currentCall.extraction.sentiment = "negative"
    /\ currentCall.extraction.sentimentScore = 80
    /\ currentCall.extraction.keywords = <<5000, 7>>
    /\ Len(currentCall.extraction.promises) = 2
    /\ Len(currentCall.transcript) = 1

\* amount || 0
AmountOrZero(promise) ==
    IF promise.amount = Undefined THEN 0 ELSE promise.amount

RECURSIVE TotalFromEnd(_)
\* The sum of the amounts of a promise list, taken from its last element
TotalFromEnd(promises) ==
    IF promises = <<>> THEN 0
    ELSE TotalFromEnd(SubSeq(promises, 1, Len(promises) - 1))
         + AmountOrZero(promises[Len(promises)])

(* C18: when the summary of endCallWithAI becomes available while its call is
   the active current call, the resulting current call is that same call with
   status completed, and callHistory is one new item with the id, customer,
   duration, sentiment and transcript text of that call, followed by the
   previous history. *)
C18_CompletionKeepsCall ==
    [][\A i \in 1..MaxSummaryReqs :
          (/\ IsSummaryReturn(i)
           /\ IsActive(currentCall)
           /\ summaryReqs[i].id = currentCall.id)
          => /\ currentCall'.id = currentCall.id
             /\ currentCall'.status = "completed"
             /\ currentCall'.transcript = currentCall.transcript
             /\ currentCall'.extraction = currentCall.extraction
             /\ currentCall'.duration = currentCall.duration
             /\ Len(callHistory') = Len(callHistory) + 1
             /\ Tail(callHistory') = callHistory
             /\ callHistory'[1].id = currentCall.id
             /\ callHistory'[1].customer = currentCall.customer
             /\ callHistory'[1].duration = currentCall.duration
             /\ callHistory'[1].sentiment = currentCall.extraction.sentiment
             /\ callHistory'[1].fullTranscript
                    = JoinTexts(currentCall.transcript)]_vars

(* C19: the history item written by a completion has totalPromisedAmount
   equal to the sum of the amounts of the promises of the completed call, a
   promise without amount counting 0, and promisesCount equal to their
   number. *)
C19_HistoryTotals ==
    [][Len(callHistory') = Len(callHistory) + 1
          => LET promises == currentCall'.extraction.promises
             IN  /\ callHistory'[1].id = currentCall'.id
                 /\ callHistory'[1].promisesCount = Len(promises)
                 /\ callHistory'[1].totalPromisedAmount
                        = TotalFromEnd(promises)]_vars

\* A call with one promise of 5000 and one promise without amount was
\* archived: two promises, 5000 in total.
C19_Witness ==
    /\ callHistory # <<>>
    /\ callHistory[1].promisesCount = 2
    /\ callHistory[1].totalPromisedAmount = 5000
    /\ currentCall.status = "completed"
    /\ \E k \in 1..2 : currentCall.extraction.promises[k].amount = Undefined

(* C20: cancelCall without a current call changes nothing in the store,
   cancelCall always leaves no current call (so a second cancelCall changes
   nothing more), and cancelCall never changes callHistory. *)
C20_CancelIdempotent ==
    [][cancelCall
          => /\ currentCall' = NoCall
             /\ callHistory' = callHistory
             /\ nextCallId' = nextCallId
             /\ currentCall = NoCall => UNCHANGED vars]_vars

\* The second call was cancelled after the first one was archived: there is
\* no current call and the archived item is still the whole history.
C20_Witness ==
    /\ currentCall = NoCall
    /\ cancelledIds = {2}
    /\ Len(callHistory) = 1
    /\ callHistory[1].id = 1

(* C21: the status of a call is one-way: a call that is completed does not
   become active again, and a call dropped by cancelCall is never the current
   call again, in any status. *)
C21_StatusOneWay ==
    /\ [](currentCall # NoCall => currentCall.id \notin cancelledIds)
    /\ [][(currentCall.status = "completed"
            /\ currentCall'.id = currentCall.id)
           => currentCall'.status = "completed"]_vars

(* C22: a timer tick acts on an active call and sets its duration to the
   previous duration plus one, changing nothing else of the call; from one
   state to the next the duration of a call stays or grows by exactly one. *)
C22_TickIncrementsByOne ==
    [][/\ Tick => /\ IsActive(currentCall)
                  /\ currentCall' =
                         [currentCall EXCEPT !.duration = @ + 1]
       /\ (currentCall # NoCall /\ currentCall'.id = currentCall.id)
          => currentCall'.duration \in
                 {currentCall.duration, currentCall.duration + 1}]_vars

\* The timer has ticked on a call that is still active and has a transcript.
C22_Witness ==
    /\ IsActive(currentCall)
    /\ timerOn
    /\ currentCall.duration = MaxDuration
    /\ currentCall.transcript # <<>>

(* C23: once End Session has been requested for a call the duration timer is
   off and the call's duration stays at its value at the request while the
   summary is pending; the history item archived when the summary returns
   carries that duration; and the timer never runs without an active call. *)
C23_NoTickAfterEnd ==
    /\ [](\A i \in 1..Len(summaryReqs) :
             currentCall.id = summaryReqs[i].id
             => /\ ~timerOn
                /\ currentCall.duration = summaryReqs[i].duration)
    /\ [](timerOn => IsActive(currentCall))
    /\ [][\A i \in 1..MaxSummaryReqs :
             IsSummaryReturn(i)
             => callHistory'[1].duration = summaryReqs[i].duration]_vars

\* The summary of the current call is pending, a chunk arrived after the
\* request, and the duration is still under the bound the timer is followed
\* to: a tick would be possible if the timer were running.
C23_Witness ==
    /\ summaryReqs # <<>>
    /\ summaryReqs[1].id = currentCall.id
    /\ Len(currentCall.transcript) > Len(summaryReqs[1].transcript)
    /\ currentCall.duration < MaxDuration
    /\ ~timerOn

(* C24: no call is in the history while a summary request for it is pending,
   and the summary of the item added to the history is the summary attached
   to the completed call. *)
C24_ArchivedAfterSummary ==
    /\ [](\A h \in 1..Len(callHistory) : \A i \in 1..Len(summaryReqs) :
             callHistory[h].id # summaryReqs[i].id)
    /\ [][Len(callHistory') = Len(callHistory) + 1
          => /\ callHistory'[1].id = currentCall'.id
             /\ callHistory'[1].summary = currentCall'.summary.kind]_vars

(* C25: when the joined transcript has fewer than 10 characters, the empty
   transcript included, generateAISummary issues no request and returns the
   fixed minimal-session summary with exactly 2 next actions. *)
C25_MinimalSummary ==
    (fnResult.fn = "generateAISummary"
     /\ fnArgs.transcript.len < SummaryMinLength)
        => /\ ~fnResult.requested
           /\ fnResult.result.summary
                  = <<"Session completed with minimal conversation.">>
           /\ Len(fnResult.result.nextActions) = 2

\* An empty transcript of a call with a promise went through generateAISummary
C25_Witness ==
    /\ fnResult.fn = "generateAISummary"
    /\ fnArgs.transcript = EmptyText
    /\ fnArgs.promises # <<>>
    /\ fnArgs.resp.kind = "json"
    /\ ~fnResult.requested

(* C26: when the summary request is rejected, answered without JSON, or
   answered with JSON that lacks the summary field or the nextActions field,
   both the summary text and the next actions are the locally synthesized
   ones, the result of generateFallbackSummary. *)
C26_FallbackOnMissingFields ==
    (/\ fnResult.fn = "generateAISummary"
     /\ fnResult.requested
     /\ \/ fnArgs.resp.kind # "json"
        \/ ~fnArgs.resp.hasSummary
        \/ ~fnArgs.resp.hasActions)
        => fnResult.result = generateFallbackSummary(ExtractionOf(fnArgs))

\* The next actions of the result were synthesized by generateAISummary itself
LocallySynthesized ==
    /\ fnResult.fn = "generateAISummary"
    /\ fnResult.requested
    /\ (fnArgs.resp.kind # "json" \/ ~fnArgs.resp.hasActions)

\* No condition of generateFallbackNextActions holds
NoFallbackRule(e) ==
    /\ e.promises = <<>>
    /\ \A i \in 1..Len(e.objections) :
           e.objections[i].type
               \notin {"financial_hardship", "job_loss", "dispute"}
    /\ \A i \in 1..Len(e.agreements) :
           e.agreements[i].type \notin {"payment_plan", "callback"}
    /\ e.sentiment # "negative"

\* No condition of generateContextAwareNextActions holds
NoContextRule(t, e) ==
    /\ e.promises = <<>>
    /\ t.kw \cap {"m-pesa", "mpesa", "payment plan", "installment",
                  "call back", "call me", "statement", "document"} = {}
    /\ \A i \in 1..Len(e.objections) :
           e.objections[i].type
               \notin {"financial_hardship", "job_loss", "medical", "dispute"}
    /\ \A i \in 1..Len(e.agreements) :
           e.agreements[i].type \notin {"payment_plan", "callback"}
    /\ e.sentiment # "negative"

(* C27: the locally synthesized next actions, of generateFallbackNextActions
   and of generateContextAwareNextActions alike, number at least 1 and at
   most 5 whatever the promises, objections, agreements, sentiment and
   transcript, and they are the default actions exactly when no rule
   qualifies. *)
C27_NextActionsBounds ==
    /\ LocallySynthesized
          => /\ Len(fnResult.result.nextActions) \in 1..5
             /\ (fnResult.result.nextActions = FallbackDefaultActions)
                   <=> NoFallbackRule(ExtractionOf(fnArgs))
    /\ fnResult.fn = "generateContextAwareNextActions"
          => /\ Len(fnResult.result.nextActions) \in 1..5
             /\ (fnResult.result.nextActions
                     = ContextDefaultActions(fnArgs.transcript))
                   <=> NoContextRule(fnArgs.transcript, ExtractionOf(fnArgs))

\* Seven fallback actions qualified and five were returned
C27_Witness ==
    /\ LocallySynthesized
    /\ Len(FallbackRuleActions(ExtractionOf(fnArgs))) = 7
    /\ Len(fnResult.result.nextActions) = 5

\* The rule of the documented list an action's wording belongs to
RuleOf(action) ==
    CASE action \in {"Monitor KES payment from customer",
                     "Monitor payment of KES from customer"}
            -> "monitor-promise-amount"
      [] action = "Set reminder for payment due" -> "due-date-reminder"
      [] action = "Confirm payment date with customer via SMS"
            -> "confirm-date"
      [] action = "Verify M-Pesa payment receipt" -> "mpesa-verification"
      [] action = "Prepare payment plan documentation"
            -> "payment-plan-documentation"
      [] action \in {"Schedule follow-up call as agreed",
                     "Schedule callback as agreed"}
            -> "callback-scheduling"
      [] action \in {"Review account for hardship assistance options",
                     "Review account for hardship assistance program"}
            -> "hardship-review"
      [] action = "Send information about flexible payment programs"
            -> "hardship-programs"
      [] action = "Flag account for medical hardship review"
            -> "medical-hardship-flag"
      [] action = "Escalate account dispute to supervisor"
            -> "dispute-escalation"
      [] action = "Send account statement and transaction history"
            -> "dispute-statement"
      [] action = "Email account statement to customer" -> "document-request"
      [] action \in {"Consider supervisor follow-up call",
                     "Consider assigning senior agent"}
            -> "negative-sentiment-escalation"
      [] action \in {"Schedule follow-up call within 5 business days",
                     "Follow up with customer within 7 days",
                     "Attempt callback - conversation was brief"}
            -> "default-follow-up"
      [] action \in {"Send account statement showing balance",
                     "Send account reminder via SMS",
                     "Review account for alternative contact methods"}
            -> "default-contact"
      [] OTHER -> action

RulesOf(actions) == [i \in 1..Len(actions) |-> RuleOf(actions[i])]

\* callGeminiAPI rejected or its answer could not be parsed
SummaryCallFailed ==
    /\ fnResult.fn = "generateAISummary"
    /\ fnResult.requested
    /\ fnArgs.resp.kind # "json"

(* C28: when the AI summary call fails for a call with a non-minimal
   transcript, the next actions attached to the call follow the
   priority-ordered rule list (promise-amount monitoring, due-date reminder or
   confirm-date, M-Pesa verification, payment-plan documentation, callback
   scheduling, hardship review, medical-hardship flag, dispute escalation with
   two actions, document request, negative-sentiment escalation), in that
   order and capped at 5.  Wordings are compared by the rule they belong
   to. *)
C28_FailureUsesPriorityList ==
    SummaryCallFailed
        => RulesOf(fnResult.result.nextActions)
               = RulesOf(generateContextAwareNextActions(
                             fnArgs.transcript, ExtractionOf(fnArgs)))

NoSentimentWord(text) ==
    text.kw \cap (POSITIVE_KEYWORDS \cup NEGATIVE_KEYWORDS) = {}

(* C29: for every chunk and every full transcript the sentiment score of
   analyzeText lies within [5, 95]; when neither text contains a positive or
   negative keyword the score is 50 and the label neutral; and the
   sentimentScore of the call the extraction is merged into lies within
   [5, 95]. *)
C29_SentimentScoreRange ==
    /\ fnResult.fn = "analyzeText"
          => /\ fnResult.result.extraction.sentimentScore \in 5..95
             /\ (NoSentimentWord(fnArgs.text)
                 /\ NoSentimentWord(fnArgs.fullTranscript))
                   => /\ fnResult.result.extraction.sentimentScore = 50
                      /\ fnResult.result.extraction.sentiment = "neutral"
    /\ fnResult.fn = "updateExtraction"
          => fnResult.call.extraction.sentimentScore \in 5..95

\* Six positive keyword hits: 50 + 6 * 15 is capped to 95, and merged
C29_Witness ==
    /\ fnResult.fn = "updateExtraction"
    /\ Count(fnArgs.text, POSITIVE_KEYWORDS)
          + Count(fnArgs.fullTranscript, POSITIVE_KEYWORDS) = 6
    /\ Count(fnArgs.text, NEGATIVE_KEYWORDS) = 0
    /\ Count(fnArgs.fullTranscript, NEGATIVE_KEYWORDS) = 0
    /\ fnResult.call.extraction.sentimentScore = 95

(* C30: analyzeText emits exactly one promise when the lower-cased chunk
   contains a promise keyword and none otherwise; the description of the
   promise is the first 100 characters of the chunk, so at most 100 long, and
   hasSignificantContent is true. *)
C30_OnePromisePerChunk ==
    fnResult.fn = "analyzeText"
        => LET promises == fnResult.result.extraction.promises
           IN  IF fnArgs.text.kw \cap PROMISE_KEYWORDS # {}
               THEN /\ Len(promises) = 1
                    /\ promises[1].description.len
                          = Min(fnArgs.text.len, 100)
                    /\ promises[1].description.len <= 100
                    /\ promises[1].description.kw \subseteq fnArgs.text.kw
                    /\ fnResult.result.hasSignificantContent
               ELSE promises = <<>>

\* A chunk of 150 characters with a promise keyword was analyzed
C30_Witness ==
    /\ fnResult.fn = "analyzeText"
    /\ "promise" \in fnArgs.text.kw
    /\ fnArgs.text.len = 150
    /\ Len(fnResult.result.extraction.promises) = 1
    /\ fnResult.result.extraction.promises[1].description.len = 100

(* C31: analyzeText emits at most one objection per chunk, exactly one when
   an objection keyword is present; its type is job_loss or medical when the
   chunk mentions either, else financial_hardship, else dispute, else other;
   its severity follows from the type, high for job_loss and medical; a chunk
   with both a lost job and "can't afford" gives job_loss with severity
   high. *)
C31_ObjectionPriority ==
    fnResult.fn = "analyzeText"
        => LET objections == fnResult.result.extraction.objections
               kw == fnArgs.text.kw
               jobOrMedical ==
                   kw \cap {"job", "unemployed", "medical", "hospital",
                            "sick"} # {}
               hardship == kw \cap {"afford", "hardship"} # {}
               dispute == kw \cap {"dispute", "not my", "wrong"} # {}
           IN  /\ Len(objections) <= 1
               /\ Len(objections) = 1 <=> kw \cap OBJECTION_KEYWORDS # {}
               /\ Len(objections) = 1
                     => /\ objections[1].type \in {"job_loss", "medical"}
                              <=> jobOrMedical
                        /\ objections[1].type = "financial_hardship"
                              <=> (~jobOrMedical /\ hardship)
                        /\ objections[1].type = "dispute"
                              <=> (~jobOrMedical /\ ~hardship /\ dispute)
                        /\ objections[1].type = "other"
                              <=> (~jobOrMedical /\ ~hardship /\ ~dispute)
                        /\ objections[1].type \in {"job_loss", "medical"}
                              => objections[1].severity = "high"
                        /\ objections[1].severity
                              = ObjectionSeverity(objections[1].type)
                        /\ {"job", "can't afford"} \subseteq kw
                              => /\ objections[1].type = "job_loss"
                                 /\ objections[1].severity = "high"

\* "I lost my job and can't afford this" was analyzed
C31_Witness ==
    /\ fnResult.fn = "analyzeText"
    /\ fnArgs.text.kw = {"job", "can't afford", "afford"}
    /\ Len(fnResult.result.extraction.objections) = 1
    /\ fnResult.result.extraction.objections[1].type = "job_loss"

(* C32: an interim speech event changes neither the transcript log nor the
   extraction of the call, so every logged entry has isFinal = true; each
   final speech event received while the call is active appends exactly one
   entry, at the end of the log, and applies exactly one extraction, that of
   its text. *)
C32_InterimNeverLogged ==
    /\ [](currentCall # NoCall
            => \A n \in 1..Len(currentCall.transcript) :
                  currentCall.transcript[n].isFinal)
    /\ [][\A i \in SpeechTexts :
             onresultInterim(i) => UNCHANGED <<currentCall, callHistory>>]_vars
    /\ [][\A f \in SpeechTexts, i \in SpeechTexts \cup {EmptyText} :
             (onresultFinal(f, i) /\ IsActive(currentCall))
                 => /\ currentCall'.transcript
                          = Append(currentCall.transcript,
                                   [text |-> f, isFinal |-> TRUE])
                    /\ currentCall'.extraction
                          = updateExtraction(
                                currentCall,
                                analyzeText(
                                    f, Concat(JoinTexts(currentCall.transcript),
                                              f)).extraction).extraction]_vars

\* Two final events were logged and an interim text is on display
C32_Witness ==
    /\ IsActive(currentCall)
    /\ Len(currentCall.transcript) = 2
    /\ currentCall.transcript[1].text # currentCall.transcript[2].text
    /\ Len(currentCall.extraction.promises) = 1
    /\ speech.interimText # EmptyText
    /\ speech.recognition = "running"

\* The recognition held has ended while listening is still wanted
EndedWhileWanted == speech.recognition = "ended" /\ speech.shouldRestart

\* no-speech, aborted and network errors leave the error shown to the user
\* and the auto-restart flag alone
RecoverableErrorsSilent ==
    [][\A k \in {"no-speech", "aborted", "network"} :
          recognitionError(k)
              => /\ speech'.error = speech.error
                 /\ speech'.shouldRestart = speech.shouldRestart]_vars

(* C33 as stated: a no-speech, aborted or network error never sets the error
   shown to the user and never disables auto-restart, and whenever the
   recognition ends while shouldRestart is true, a recognition is eventually
   started again. *)
C33_AlwaysRestarted ==
    /\ RecoverableErrorsSilent
    /\ EndedWhileWanted ~> (speech.recognition = "starting")

(* C33, amended: a no-speech, aborted or network error never sets the error
   shown to the user and never disables auto-restart, and whenever the
   recognition ends while shouldRestart is true, a recognition is eventually
   started again unless listening stops being wanted first. *)
C33_RestartedWhileWanted ==
    /\ RecoverableErrorsSilent
    /\ EndedWhileWanted
          ~> (speech.recognition = "starting" \/ ~speech.shouldRestart)

\* The recognition has ended with the restart timer armed and no error shown
C33_Witness ==
    /\ EndedWhileWanted
    /\ speech.restartPending
    /\ speech.error = "none"
    /\ ~isListening

(* C34: callHistory changes only by the prepending of one item when a call is
   completed, or by clearHistory emptying it: no other operation adds,
   removes, modifies or reorders history items. *)
C34_HistoryFrame ==
    [][callHistory' # callHistory
          => \/ clearHistory
             \/ /\ callHistory' = <<callHistory'[1]>> \o callHistory
                /\ currentCall'.status = "completed"
                /\ callHistory'[1].id = currentCall'.id]_vars

\* A call is being fed and timed with two items in the history
C34_Witness ==
    /\ Len(callHistory) = 2
    /\ callHistory[1] # callHistory[2]
    /\ IsActive(currentCall)
    /\ currentCall.transcript # <<>>
    /\ currentCall.extraction.promises # <<>>
    /\ currentCall.duration = MaxDuration
    /\ theme = "dark"

(* C35: every call is archived at most once: whatever the operations, a
   second End request while the first summary is pending included,
   callHistory never holds two items with the same call id. *)
C35_ArchivedAtMostOnce ==
    \A i, j \in 1..Len(callHistory) :
        i # j => callHistory[i].id # callHistory[j].id

(* C36: callHistory is ordered most-recent-first by end time: the endedAt of
   each item is greater than or equal to that of the item after it, also when
   summary requests return in another order than they were started. *)
C36_HistoryMostRecentFirst ==
    \A i \in 1..(Len(callHistory) - 1) :
        callHistory[i].endedAt >= callHistory[i + 1].endedAt

\* the ids of the calls whose summary request is pending
PendingIds == {summaryReqs[i].id : i \in 1..Len(summaryReqs)}

ArchivedWithSummary(id) ==
    \E h \in 1..Len(callHistory) :
        callHistory[h].id = id /\ callHistory[h].summary # NoSummary.kind

(* C37: every End Session request on an active call leads to the call being
   completed and archived with a summary: a brief call in the step of the
   request, any other call when its summary request returns, which it
   eventually does; the step that takes a request off the pending ones
   prepends the item of its call, with a summary, and completes the call. *)
C37_EndRequestArchives ==
    /\ [][handleEndCallWithin(MaxEndRequests)
             => \/ /\ Len(summaryReqs') = Len(summaryReqs) + 1
                   /\ SubSeq(summaryReqs', 1, Len(summaryReqs)) = summaryReqs
                   /\ summaryReqs'[Len(summaryReqs')].id = currentCall.id
                \/ /\ ArchivedWithSummary(currentCall.id)'
                   /\ currentCall'.status = "completed"
                   /\ currentCall'.id = currentCall.id]_vars
    /\ [][Len(summaryReqs') < Len(summaryReqs)
             => \E i \in 1..Len(summaryReqs) :
                   /\ summaryReqs' = RemoveAt(summaryReqs, i)
                   /\ Len(callHistory') = Len(callHistory) + 1
                   /\ callHistory'[1].id = summaryReqs[i].id
                   /\ callHistory'[1].summary \in {"ai", "fallback"}
                   /\ currentCall'.status = "completed"
                   /\ currentCall'.id = summaryReqs[i].id]_vars
    /\ \A id \in 1..MaxCalls :
          (id \in PendingIds) ~> (id \notin PendingIds /\ ArchivedWithSummary(id))

\* the summary of a call cancelled during the wait has returned
C37_Witness ==
    /\ summaryReqs = <<>>
    /\ callHistory # <<>>
    /\ callHistory[1].id \in cancelledIds
    /\ callHistory[1].summary \in {"ai", "fallback"}
    /\ currentCall.status = "completed"

(* C38: the sentiment label of the coaching context equals the sentiment
   label of the session: every coaching request issued carries the
   extraction.sentiment of the current call as its detectedSentiment. *)
C38_ContextSentimentIsSessionSentiment ==
    [][IsRemoteIssue
          => remoteCalls'[Len(remoteCalls')].context.detectedSentiment
                 = currentCall.extraction.sentiment]_vars

\* The service would issue a remote call for the transcript of the current
\* call: none is in flight and the transcript has grown by ServiceMinGrowth
\* since the last one
ServiceAdmits ==
    /\ IsActive(currentCall)
    /\ ~isProcessing
    /\ JoinTexts(currentCall.transcript).len >= ServiceMinLength
    /\ JoinTexts(currentCall.transcript).len - lastAnalyzedLength
           >= ServiceMinGrowth

(* C39: when the debounce timer fires in an active session whose transcript
   has grown by at least 60 characters since the last remote coaching call,
   with no call in flight, a remote coaching call is issued: the baseline of
   the component does not suppress what the baseline of the service admits. *)
C39_ComponentNeverSuppresses ==
    [][fetchSuggestions /\ ServiceAdmits => IsRemoteIssue]_vars

\* A timer is pending whose callback starts recognition: the 300 ms one of
\* recognition.onend, or the 100 ms one of handleLanguageChange
RestartTimerPending == speech.restartPending \/ speech.relistenPending

(* C40: after stopListening called by Stop Recording, End Session or Cancel,
   recognition is not started again until the user starts recording: the
   step leaves no pending auto-restart timeout and no pending
   language-switch timer that would start it. *)
C40_StopLeavesNoRestartTimer ==
    [][(handleStopRecording \/ handleEndCall \/ handleCancelCall)
          => ~RestartTimerPending']_vars

====
